---- MODULE Spec2Model ----
(***************************************************************************)
(* Model of file_checker: FileAnalyzer (src/src/file_checker/core/         *)
(* analyzer.py) analysing PDF, Word and image files against the declared   *)
(* print specifications.                                                   *)
(*                                                                         *)
(* Representation of Python values                                         *)
(*   - Optional[T]: None is the empty tuple, a present value v is <<v>>.   *)
(*   - str that the code computes on or compares character by character    *)
(*     (sizes, declared values, page text): a tuple of one-character       *)
(*     strings.  str that the code only carries (messages, MIME types,     *)
(*     PDF names): a TLA+ string.                                          *)
(*   - float page measures: integers in hundredths of a point; a size in   *)
(*     centimetres rounded to one decimal is an integer number of tenths.  *)
(*   - a raised exception: a record [type, msg]; a call that may raise     *)
(*     yields [exc, val].                                                  *)
(***************************************************************************)
EXTENDS Integers, Sequences, FiniteSets, TLC

VARIABLES
    specifiche,   \* FileAnalyzer.specifiche: role -> declared values
    risultati,    \* FileAnalyzer._risultati: role -> Optional[AnalysisOutcome]
    pc,           \* position of the running analizza_file call ("idle": none)
    file,         \* the file at `percorso` of the running call
    tipo,         \* the role argument of the running call
    fp,           \* the file object opened by _analizza_pdf: none, open, closed
    reader,       \* the PdfReader built by _analizza_pdf
    loc,          \* local variables of _analizza_pdf
    exc,          \* exception propagating out of the selected analyzer
    ret,          \* value returned by the last analizza_file call
    calls,        \* number of analizza_file calls started
    limit,        \* number of calls the session makes at most
    folder,       \* names the set of files the session picks its files from
    worker,       \* the AnalysisWorker thread: its arguments, position and signals
    conv,         \* a dimension going through lines 299-300 of _dimensioni_impaginato
    gui           \* FileCheckerMainWindow: its widgets, selections and report

vars == <<specifiche, risultati, pc, file, tipo, fp, reader, loc, exc, ret, calls, limit, folder, worker, conv, gui>>

----------------------------------------------------------------------------
(* Python values *)

None == << >>
Some(v) == <<v>>

NoExc == [type |-> "", msg |-> ""]
Ok(v) == [exc |-> NoExc, val |-> v]
Raise(type, msg) == [exc |-> [type |-> type, msg |-> msg], val |-> None]
Raised(r) == r.exc # NoExc

\* An operator evaluates an argument wherever it uses it: an intermediate
\* result used more than once is first bound as the element of a one-element
\* set, which computes it once.
Only(S) == CHOOSE x \in S : TRUE

----------------------------------------------------------------------------
(* str operations used by the analyzer *)

Digits == <<"0", "1", "2", "3", "4", "5", "6", "7", "8", "9">>

IsDigit(c) == \E d \in 1..10 : Digits[d] = c

DigitVal(c) == (CHOOSE d \in 1..10 : Digits[d] = c) - 1

\* Letters, digits and underscore: the characters the regex class \w matches.
IsWordChar(c) ==
    \/ IsDigit(c)
    \/ c \in {"a", "b", "c", "e", "i", "l", "m", "n", "o", "r", "x", "_",
              "A", "B", "C", "E", "I", "L", "M", "N", "O", "R", "X"}

IsSpace(c) == c \in {" ", "\t", "\n"}

\* str(n) for an int n >= 0
RECURSIVE IntToStr(_)
IntToStr(n) ==
    IF n < 10 THEN <<Digits[n + 1]>>
    ELSE IntToStr(n \div 10) \o <<Digits[(n % 10) + 1]>>

\* f"{x:.1f}" for x >= 0 given as its number of tenths after rounding
format_1f(tenths) ==
    IntToStr(tenths \div 10) \o <<".">> \o <<Digits[(tenths % 10) + 1]>>

\* s.replace(old, new) for one-character old and new
replace(s, old, new) ==
    [i \in DOMAIN s |-> IF s[i] = old THEN new ELSE s[i]]

LowerChar(c) ==
    CASE c = "A" -> "a" [] c = "B" -> "b" [] c = "C" -> "c" [] c = "D" -> "d"
      [] c = "E" -> "e" [] c = "F" -> "f" [] c = "G" -> "g" [] c = "H" -> "h"
      [] c = "I" -> "i" [] c = "J" -> "j" [] c = "K" -> "k" [] c = "L" -> "l"
      [] c = "M" -> "m" [] c = "N" -> "n" [] c = "O" -> "o" [] c = "P" -> "p"
      [] c = "Q" -> "q" [] c = "R" -> "r" [] c = "S" -> "s" [] c = "T" -> "t"
      [] c = "U" -> "u" [] c = "V" -> "v" [] c = "W" -> "w" [] c = "X" -> "x"
      [] c = "Y" -> "y" [] c = "Z" -> "z"
      [] OTHER -> c

\* s.lower()
lower(s) == Only({SubSeq([i \in DOMAIN t |-> LowerChar(t[i])], 1, Len(t)) : t \in {s}})

RECURSIVE lstrip(_)
lstrip(s) ==
    IF s # << >> /\ IsSpace(Head(s)) THEN lstrip(Tail(s)) ELSE s

RECURSIVE rstrip(_)
rstrip(s) ==
    IF s # << >> /\ IsSpace(s[Len(s)]) THEN rstrip(SubSeq(s, 1, Len(s) - 1)) ELSE s

\* s.strip()
strip(s) == rstrip(lstrip(s))

RECURSIVE DigitsValue(_)
DigitsValue(s) ==
    IF s = << >> THEN 0
    ELSE 10 * DigitsValue(SubSeq(s, 1, Len(s) - 1)) + DigitVal(s[Len(s)])

\* int(s) for a str s: surrounding whitespace is ignored, a run of decimal
\* digits is its value, anything else raises ValueError.
int(s) ==
    LET t == strip(s) IN
    IF t # << >> /\ \A i \in DOMAIN t : IsDigit(t[i])
    THEN Ok(DigitsValue(t))
    ELSE Raise("ValueError", "invalid literal for int() with base 10")

\* re.findall(r"\b\d+\b", text): the maximal runs of digits that are neither
\* preceded nor followed by a word character, in text order.
RECURSIVE FindNumsFrom(_, _)
FindNumsFrom(text, i) ==
    IF i > Len(text) THEN << >>
    ELSE IF ~IsDigit(text[i]) THEN FindNumsFrom(text, i + 1)
    ELSE
        LET ends == {j \in i..Len(text) :
                        /\ \A k \in i..j : IsDigit(text[k])
                        /\ (j = Len(text) \/ ~IsDigit(text[j + 1]))}
            j == CHOOSE e \in ends : TRUE
            boundedLeft == i = 1 \/ ~IsWordChar(text[i - 1])
            boundedRight == j = Len(text) \/ ~IsWordChar(text[j + 1])
        IN  IF boundedLeft /\ boundedRight
            THEN <<SubSeq(text, i, j)>> \o FindNumsFrom(text, j + 1)
            ELSE FindNumsFrom(text, j + 1)

findall_numbers(text) == FindNumsFrom(text, 1)

----------------------------------------------------------------------------
(* The PDF object model read through PdfReader                              *)
(*   document  [encrypted, pages]                                            *)
(*   page      [width, height, resources, inherited, text, text_fails]       *)
(*             width, height: MediaBox measures in hundredths of a point;    *)
(*             resources: the page's own /Resources, None or                 *)
(*             <<[Font, XObject]>>, each entry None or <<tuple of objects>>; *)
(*             inherited: the /Resources of the nearest page-tree ancestor   *)
(*             that has one, in the same form; text: what extract_text()     *)
(*             returns; text_fails: extract_text() raises                    *)
(*   font      [FontDescriptor]: None or <<set of the descriptor's keys>>    *)
(*   xobject   [Subtype, ColorSpace]: ColorSpace is [kind, v] with kind      *)
(*             "none" (no entry), "name" (v holds the name) or "array" (v    *)
(*             holds the elements)                                           *)
(*   reader    [doc, stream, cached, decrypted]: stream is the state of the  *)
(*             file object the reader was built on; cached: the reader       *)
(*             holds the objects in memory, so reading them needs no access  *)
(*             to the stream; decrypted: the objects of an encrypted         *)
(*             document can be read                                          *)
(***************************************************************************)

PointsPerCm == 2835   \* 28.35 points per centimetre, in hundredths of a point

FontFileKeys == {"/FontFile", "/FontFile2", "/FontFile3"}

GrayColorSpaces == {"/DeviceGray", "/CalGray"}

\* The colour-space identifiers of the model in the order sorted() gives str.
ColorSpaceOrder ==
    <<"/CalGray", "/CalRGB", "/DeviceCMYK", "/DeviceGray", "/DeviceRGB",
      "/ICCBased", "/Indexed", "None">>

\* Reading an object of the document through the reader: possible while the
\* stream is open or when the reader holds the objects in memory, and, for an
\* encrypted document, only once decrypted.
StreamReadable(rd) == rd.stream = "open" \/ rd.cached

Readable(rd) == StreamReadable(rd) /\ (~rd.doc.encrypted \/ rd.decrypted)

ReadError(rd) ==
    IF ~StreamReadable(rd)
    THEN [type |-> "ValueError", msg |-> "seek of closed file"]
    ELSE [type |-> "FileNotDecryptedError", msg |-> "File has not been decrypted"]

\* reader.pages
pages(rd) ==
    IF Readable(rd) THEN Ok(rd.doc.pages)
    ELSE [exc |-> ReadError(rd), val |-> None]

\* reader.is_encrypted: known from the trailer read by the constructor
is_encrypted(rd) == rd.doc.encrypted

\* page.get("/Resources"): the page's own entry; a page of reader.pages that
\* has no own entry carries the entry its page-tree ancestors pass down
PageGetResources(page) ==
    IF page.resources # None THEN page.resources ELSE page.inherited

\* page.get("/Resources") or {} ;  resources.get(key) or {}
ResourceEntries(page, key) ==
    LET resources == PageGetResources(page) IN
    IF resources = None THEN << >>
    ELSE LET entry == resources[1][key]
         IN  IF entry = None THEN << >> ELSE entry[1]

----------------------------------------------------------------------------
(* Python float: IEEE 754 binary64, round to nearest, ties to even.          *)
(* A natural number too large for an integer of the model is the tuple of    *)
(* its digits in base 2^14, least significant first, without leading zeros;  *)
(* a float x >= 0 is [m, e] with value m * 2^e, m a natural of exactly 53    *)
(* binary digits, or m = << >> for 0.0.                                      *)

\* 2^k for k in 0..14
Pow2(k) ==
    <<1, 2, 4, 8, 16, 32, 64, 128, 256, 512, 1024, 2048, 4096, 8192, 16384>>[k + 1]

Max(S) == CHOOSE m \in S : \A n \in S : n <= m

Trim(x) ==
    IF x = << >> THEN x ELSE SubSeq(x, 1, Max({0} \cup {i \in DOMAIN x : x[i] # 0}))

LimbAt(x, i) == IF i \in DOMAIN x THEN x[i] ELSE 0

\* a natural below 2^30 as digits, and back
Limbs(n) == Trim(<<n % 16384, (n \div 16384) % 16384, n \div (16384 * 16384)>>)

LimbsValue(x) ==
    LimbAt(x, 1) + (16384 * LimbAt(x, 2)) + (16384 * 16384 * LimbAt(x, 3))

\* the number of binary digits of x
BitLen(x) ==
    IF x = << >> THEN 0
    ELSE 14 * (Len(x) - 1) + Cardinality({k \in 0..13 : Pow2(k) <= x[Len(x)]})

\* the i-th binary digit of x, the least significant being the first
BitAt(x, i) == (LimbAt(x, (i - 1) \div 14 + 1) \div Pow2((i - 1) % 14)) % 2

\* x >= y
Geq(x, y) ==
    IF x = y THEN TRUE
    ELSE LET n == Max({Len(x), Len(y)})
         IN  ~\E i \in 1..n : /\ LimbAt(x, i) < LimbAt(y, i)
                              /\ \A k \in (i + 1)..n : LimbAt(x, k) = LimbAt(y, k)

\* x + y: digit i receives a carry when a lower digit sum overflows and every
\* digit sum between is at the top of the base
Add(x, y) ==
    IF x = << >> THEN y
    ELSE IF y = << >> THEN x
    ELSE LET n == Max({Len(x), Len(y)})
             sum(i) == LimbAt(x, i) + LimbAt(y, i)
             carry(i) == IF \E j \in 1..(i - 1) :
                                /\ sum(j) >= 16384
                                /\ \A k \in (j + 1)..(i - 1) : sum(k) = 16383
                         THEN 1 ELSE 0
         IN  Trim([i \in 1..(n + 1) |-> (sum(i) + carry(i)) % 16384])

\* x - y for x >= y
Sub(x, y) ==
    IF x = y THEN << >>
    ELSE LET diff(i) == LimbAt(x, i) - LimbAt(y, i)
             borrow(i) == IF \E j \in 1..(i - 1) :
                                 /\ diff(j) < 0
                                 /\ \A k \in (j + 1)..(i - 1) : diff(k) = 0
                          THEN 1 ELSE 0
         IN  Trim([i \in 1..Len(x) |-> (diff(i) - borrow(i)) % 16384])

\* x * c for 0 <= c <= 2^14
MulSmall(x, c) ==
    IF x = << >> \/ c = 0 THEN << >>
    ELSE Only({Add(low, high) :
                 low \in {Trim([i \in 1..Len(x) |-> (x[i] * c) % 16384])},
                 high \in {Trim(<<0>> \o [i \in 1..Len(x) |-> (x[i] * c) \div 16384])}})

\* x * y for x, y < 2^56: the sum of the digit products of each column is
\* below 2^30 and is split into three digits
Mul(x, y) ==
    LET col(k) == LimbAt(x, 1) * LimbAt(y, k) + LimbAt(x, 2) * LimbAt(y, k - 1)
                  + LimbAt(x, 3) * LimbAt(y, k - 2) + LimbAt(x, 4) * LimbAt(y, k - 3)
    IN  Only({Add(lowmid, high) :
                lowmid \in {Add(low, mid) :
                    low \in {Trim([k \in 1..7 |-> col(k) % 16384])},
                    mid \in {Trim(<<0>> \o [k \in 1..7 |-> (col(k) \div 16384) % 16384])}},
                high \in {Trim(<<0, 0>> \o [k \in 1..7 |-> col(k) \div (16384 * 16384)])}})

\* x * 2^k and the integer part of x / 2^k
ShiftLeft(x, k) ==
    IF x = << >> \/ k = 0 THEN x
    ELSE LET c == Pow2(k % 14)
         IN  Trim([i \in 1..(k \div 14) |-> 0]
                  \o [i \in 1..(Len(x) + 1) |->
                        ((LimbAt(x, i) * c) % 16384)
                        + ((LimbAt(x, i - 1) * c) \div 16384)])

ShiftRight(x, k) ==
    IF x = << >> \/ k = 0 THEN x
    ELSE LET c == Pow2(k % 14)
             q == k \div 14
         IN  Trim([i \in 1..(Len(x) - q) |->
                     (LimbAt(x, i + q) \div c)
                     + (LimbAt(x, i + q + 1) % c) * (16384 \div c)])

\* x dropped of its k least significant binary digits and rounded to nearest,
\* ties to even; sticky: the number x stands for exceeds x by a fraction
RoundShift(x, k, sticky) ==
    IF k <= 0 THEN x
    ELSE LET half == BitAt(x, k) = 1
             rest == sticky \/ \E i \in 1..(k - 1) : BitAt(x, i) = 1
         IN  Only({IF half /\ (rest \/ BitAt(kept, 1) = 1) THEN Add(kept, <<1>>) ELSE kept :
                     kept \in {ShiftRight(x, k)}})

\* the float nearest to (x + fraction) * 2^e, for x of more than 53 binary
\* digits, or of at most 53 and without fraction
RoundToFloat(x, sticky, e) ==
    IF x = << >> THEN [m |-> << >>, e |-> 0]
    ELSE IF BitLen(x) <= 53
    THEN [m |-> ShiftLeft(x, 53 - BitLen(x)), e |-> e - (53 - BitLen(x))]
    ELSE LET k == BitLen(x) - 53
         IN  Only({IF BitLen(m) > 53
                   THEN [m |-> ShiftRight(m, 1), e |-> e + k + 1]
                   ELSE [m |-> m, e |-> e + k] :
                     m \in {RoundShift(x, k, sticky)}})

\* a * b
FloatMul(a, b) ==
    Only({Only({RoundToFloat(p, FALSE, x.e + y.e) : p \in {Mul(x.m, y.m)}}) :
            x \in {a}, y \in {b}})

\* the next 14 binary digits of the quotient of r by y, for r < y of 53
\* binary digits: the digit is estimated from the leading digits of both and
\* is at most one off
DivStep(s, y) ==
    LET r2 == Trim(<<0>> \o s.r)
        estimate == LimbsValue(ShiftRight(r2, 37)) \div LimbsValue(ShiftRight(y, 37))
        digits == {c \in ((estimate - 1)..(estimate + 1)) \cap (0..16383) :
                     /\ \E p \in {MulSmall(y, c)} : Geq(r2, p)
                     /\ \E p \in {MulSmall(y, c + 1)} : ~Geq(r2, p)}
    IN  Only({Only({[q |-> Trim(<<d>> \o s.q), r |-> Sub(r2, p)] : p \in {MulSmall(y, d)}}) :
                d \in digits})

\* x / y for mantissas x and y: the leading digit and 56 more binary digits of
\* the quotient, and the remainder
DivMantissa(x, y) ==
    Only({DivStep(s3, y) : s3 \in {DivStep(s2, y) : s2 \in
             {DivStep(s1, y) : s1 \in {DivStep(s0, y) : s0 \in
                 {IF Geq(x, y) THEN [q |-> <<1>>, r |-> Sub(x, y)]
                  ELSE [q |-> << >>, r |-> x]}}}}})

\* a / b for b > 0: the quotient of the mantissas, rounded
FloatDiv(a, b) ==
    Only({IF x.m = << >> THEN x
          ELSE Only({RoundToFloat(s.q, s.r # << >>, x.e - y.e - 56) :
                       s \in {DivMantissa(x.m, y.m)}}) :
            x \in {a}, y \in {b}})

\* float(n) for an int 0 <= n < 2^30, and float(text) for the decimal text of
\* n / d: both are the float nearest to the number
IntToFloat(n) == RoundToFloat(Limbs(n), FALSE, 0)

ToFloat(n, d) == FloatDiv(IntToFloat(n), IntToFloat(d))

\* a <= b
FloatLe(a, b) ==
    \E x \in {a}, y \in {b} :
        IF x.m = << >> THEN TRUE
        ELSE IF y.m = << >> THEN FALSE
        ELSE IF x.e # y.e THEN x.e < y.e
        ELSE Geq(y.m, x.m)

\* f"{a:.1f}" as a number of tenths: a * 10 rounded to the nearest integer,
\* ties to even
FloatTenths(a) ==
    Only({Only({LimbsValue(t) : t \in {Only({RoundShift(p, 0 - x.e, FALSE) :
                                              p \in {MulSmall(x.m, 10)}})}}) :
            x \in {a}})

\* the literals 28.35 and 1.2 of the source
F28_35 == ToFloat(PointsPerCm, 100)

F1_2 == ToFloat(12, 10)

\* float(box.width) for a box side of pt100 hundredths of a point
box_float(pt100) == ToFloat(pt100, 100)

\* a division by 72, the points of an inch
points_to_cm_Inches(x) == FloatDiv(x, IntToFloat(72))

\* x / 28.35 of line 299
points_to_cm(x) == FloatDiv(x, F28_35)

----------------------------------------------------------------------------
\* float(box.width) / 28.35 formatted with f"{x:.1f}": tenths of a centimetre.
\* 20 * pt100 is even and 2835 * (2k + 1) is odd, so the quotient is never
\* halfway between two tenths and is at least 1/5670 of a tenth away from it:
\* the rounding errors of the float quotient, below 2^-50 of its value, do not
\* change the digit, and the exact quotient gives the digits of the float.
CmTenths(pt100) == (20 * pt100 + PointsPerCm) \div (2 * PointsPerCm)

\* f"{larg:.1f}".replace(".", ",")
format_cm(pt100) == replace(format_1f(CmTenths(pt100)), ".", ",")

\* _check_single_page(larg_cm, alt_cm) for the sides w and h of the box in
\* hundredths of a point: larg_cm / alt_cm <= 1.2 on floats, 0 when the height
\* is 0.0.  A quotient w / h other than 6/5 is at least 1 / (5 * h) away from
\* it, far more than the rounding errors of the three divisions, and the
\* comparison is decided on the exact quotient; for w / h = 6/5 the floats are
\* computed.
_check_single_page(w, h) ==
    IF h = 0 THEN TRUE
    ELSE IF 5 * w # 6 * h THEN 5 * w <= 6 * h
    ELSE FloatLe(FloatDiv(points_to_cm(box_float(w)), points_to_cm(box_float(h))), F1_2)

\* FontIncorporato looking for "/FontFile" alone
FontIncorporato_OnlyFontFile(font) ==
    /\ font.FontDescriptor # None
    /\ "/FontFile" \in font.FontDescriptor[1]

\* the font object carries an embedded font program
FontIncorporato(font) ==
    /\ font.FontDescriptor # None
    /\ font.FontDescriptor[1] # {}
    /\ font.FontDescriptor[1] \cap FontFileKeys # {}

\* The loop of _check_all_fonts_incorporati from page i on: val is the value
\* returned, examined the number of pages the loop has visited.
RECURSIVE FontsFrom(_, _)
FontsFrom(pp, i) ==
    IF i > Len(pp) THEN [val |-> TRUE, examined |-> Len(pp)]
    ELSE LET fonts == ResourceEntries(pp[i], "Font")
         IN  IF \E k \in DOMAIN fonts : ~FontIncorporato(fonts[k])
             THEN [val |-> FALSE, examined |-> i]
             ELSE FontsFrom(pp, i + 1)

\* _check_all_fonts_incorporati(reader): any exception is caught and gives False
_check_all_fonts_incorporati(rd) ==
    LET pp == pages(rd)
    IN  IF Raised(pp) THEN [val |-> FALSE, examined |-> 0]
        ELSE FontsFrom(pp.val, 1)

\* dims of _dimensioni_impaginato: per page (larg_s, alt_s)
PageDims(pp) == [i \in DOMAIN pp |-> <<format_cm(pp[i].width), format_cm(pp[i].height)>>]

\* f"{w}x{h} cm"
SizeLabel(d) == d[1] \o <<"x">> \o d[2] \o <<" ", "c", "m">>

NonUniforme == <<"n", "o", "n", " ", "u", "n", "i", "f", "o", "r", "m", "e">>

\* _dimensioni_impaginato comparing the sizes in points, not the formatted pairs
_dimensioni_impaginato_RawSizes(rd) ==
    LET pp == pages(rd) IN
    IF Raised(pp) THEN [exc |-> pp.exc, val |-> None]
    ELSE
        LET dims == PageDims(pp.val)
            pagine_singole_ok ==
                \A i \in DOMAIN pp.val : _check_single_page(pp.val[i].width, pp.val[i].height)
            uniforme == \A i \in DOMAIN pp.val :
                            /\ pp.val[i].width = pp.val[1].width
                            /\ pp.val[i].height = pp.val[1].height
        IN  IF ~uniforme THEN Ok(<<NonUniforme, pagine_singole_ok>>)
            ELSE IF dims = << >> THEN Raise("IndexError", "list index out of range")
            ELSE Ok(<<SizeLabel(dims[1]), pagine_singole_ok>>)

\* _dimensioni_impaginato(reader) -> (dim_finale, pagine_singole_ok)
_dimensioni_impaginato(rd) ==
    LET pp == pages(rd) IN
    IF Raised(pp) THEN [exc |-> pp.exc, val |-> None]
    ELSE
        LET dims == PageDims(pp.val)
            pagine_singole_ok ==
                \A i \in DOMAIN pp.val : _check_single_page(pp.val[i].width, pp.val[i].height)
            uniforme == \A i \in DOMAIN dims : dims[i] = dims[1]
        IN  IF ~uniforme THEN Ok(<<NonUniforme, pagine_singole_ok>>)
            ELSE IF dims = << >> THEN Raise("IndexError", "list index out of range")
            ELSE Ok(<<SizeLabel(dims[1]), pagine_singole_ok>>)

\* _dimensioni_prima_pagina(reader) -> str
_dimensioni_prima_pagina(rd) ==
    LET pp == pages(rd) IN
    IF Raised(pp) THEN [exc |-> pp.exc, val |-> None]
    ELSE IF pp.val = << >> THEN Raise("IndexError", "sequence index out of range")
    ELSE Ok(replace(format_1f(CmTenths(pp.val[1].width)) \o <<"x">>
                    \o format_1f(CmTenths(pp.val[1].height)) \o <<" ", "c", "m">>,
                    ".", ","))

\* all(b == a + 1 for a, b in zip(numbering, numbering[1:]))
Consecutive(numbering) ==
    \A i \in 1..(Len(numbering) - 1) : numbering[i + 1] = numbering[i] + 1

\* the numbering loop taking the first numeric token of a page, not the last
RECURSIVE NumberingFrom_FirstToken(_, _, _)
NumberingFrom_FirstToken(pp, i, numbering) ==
    IF i > Len(pp)
    THEN [exc |-> NoExc, val |-> Consecutive(numbering), examined |-> Len(pp),
          numbering |-> numbering]
    ELSE IF pp[i].text_fails
    THEN [exc |-> [type |-> "PdfReadError", msg |-> "cannot decode content stream"],
          val |-> None, examined |-> i, numbering |-> numbering]
    ELSE LET nums == findall_numbers(pp[i].text)
         IN  IF nums = << >>
             THEN [exc |-> NoExc, val |-> FALSE, examined |-> i, numbering |-> numbering]
             ELSE NumberingFrom_FirstToken(pp, i + 1, Append(numbering, int(nums[1]).val))

\* the numbering loop going on to the later pages after a page without a
\* number, and answering False at the end
RECURSIVE NumberingFrom_NoFailFast(_, _, _)
NumberingFrom_NoFailFast(pp, i, numbering) ==
    IF i > Len(pp)
    THEN [exc |-> NoExc, val |-> Len(numbering) = Len(pp) /\ Consecutive(numbering),
          examined |-> Len(pp), numbering |-> numbering]
    ELSE IF pp[i].text_fails
    THEN [exc |-> [type |-> "PdfReadError", msg |-> "cannot decode content stream"],
          val |-> None, examined |-> i, numbering |-> numbering]
    ELSE LET nums == findall_numbers(pp[i].text)
         IN  IF nums = << >>
             THEN NumberingFrom_NoFailFast(pp, i + 1, numbering)
             ELSE NumberingFrom_NoFailFast(pp, i + 1,
                                           Append(numbering, int(nums[Len(nums)]).val))

\* the numbering loop letting a document of at most one page pass without
\* looking for a number
RECURSIVE NumberingFrom_TrivialSingle(_, _, _)
NumberingFrom_TrivialSingle(pp, i, numbering) ==
    IF i > Len(pp)
    THEN [exc |-> NoExc, val |-> Consecutive(numbering), examined |-> Len(pp),
          numbering |-> numbering]
    ELSE IF pp[i].text_fails
    THEN [exc |-> [type |-> "PdfReadError", msg |-> "cannot decode content stream"],
          val |-> None, examined |-> i, numbering |-> numbering]
    ELSE LET nums == findall_numbers(pp[i].text)
         IN  IF nums = << >>
             THEN [exc |-> NoExc, val |-> Len(pp) <= 1, examined |-> i,
                   numbering |-> numbering]
             ELSE NumberingFrom_TrivialSingle(pp, i + 1,
                                              Append(numbering, int(nums[Len(nums)]).val))

\* The loop of _check_page_numbering_consecutive from page i on, with the
\* numbers collected so far.
RECURSIVE NumberingFrom(_, _, _)
NumberingFrom(pp, i, numbering) ==
    IF i > Len(pp)
    THEN [exc |-> NoExc, val |-> Consecutive(numbering), examined |-> Len(pp),
          numbering |-> numbering]
    ELSE IF pp[i].text_fails
    THEN [exc |-> [type |-> "PdfReadError", msg |-> "cannot decode content stream"],
          val |-> None, examined |-> i, numbering |-> numbering]
    ELSE LET nums == findall_numbers(pp[i].text)
         IN  IF nums = << >>
             THEN [exc |-> NoExc, val |-> FALSE, examined |-> i, numbering |-> numbering]
             ELSE NumberingFrom(pp, i + 1,
                                Append(numbering, int(nums[Len(nums)]).val))

\* _check_page_numbering_consecutive(reader)
_check_page_numbering_consecutive(rd) ==
    LET pp == pages(rd)
    IN  IF Raised(pp)
        THEN [exc |-> pp.exc, val |-> None, examined |-> 0, numbering |-> << >>]
        ELSE NumberingFrom(pp.val, 1, << >>)

\* the array's last element instead of its first
ColorSpaceStr_LastElement(xobj) ==
    CASE xobj.ColorSpace.kind = "none" -> "None"
      [] xobj.ColorSpace.kind = "name" -> xobj.ColorSpace.v[1]
      [] xobj.ColorSpace.kind = "array" -> xobj.ColorSpace.v[Len(xobj.ColorSpace.v)]

\* str(cs) after "if isinstance(cs, list): cs = cs[0]"
ColorSpaceStr(xobj) ==
    CASE xobj.ColorSpace.kind = "none" -> "None"
      [] xobj.ColorSpace.kind = "name" -> xobj.ColorSpace.v[1]
      [] xobj.ColorSpace.kind = "array" -> xobj.ColorSpace.v[1]

\* the identifiers one page adds to color_spaces
PageColorSpaces(page) ==
    LET xobjects == ResourceEntries(page, "XObject")
    IN  {ColorSpaceStr(xobjects[k]) :
            k \in {j \in DOMAIN xobjects :
                     /\ xobjects[j].Subtype = "/Image"
                     /\ ColorSpaceStr(xobjects[j]) # ""}}

\* color_spaces of _check_stampa_pdf
CollectColorSpaces(pp) == UNION {PageColorSpaces(pp[i]) : i \in DOMAIN pp}

\* sorted(color_spaces), the parts that ", ".join() concatenates
RECURSIVE SortedFrom(_, _)
SortedFrom(S, i) ==
    IF i > Len(ColorSpaceOrder) THEN << >>
    ELSE (IF ColorSpaceOrder[i] \in S THEN <<ColorSpaceOrder[i]>> ELSE << >>)
         \o SortedFrom(S, i + 1)

sorted(S) == SortedFrom(S, 1)

\* _check_stampa_pdf(reader) -> (is_bw, profilo)
_check_stampa_pdf(rd) ==
    LET pp == pages(rd) IN
    IF Raised(pp) THEN [exc |-> pp.exc, val |-> None]
    ELSE LET color_spaces == CollectColorSpaces(pp.val)
         IN  IF color_spaces = {} THEN Ok(<<TRUE, <<"Nessuna immagine">>>>)
             ELSE Ok(<<color_spaces \subseteq GrayColorSpaces, sorted(color_spaces)>>)

\* _verifica_formato(attuale, richiesto)
_verifica_formato(attuale, richiesto) ==
    IF richiesto = << >> THEN TRUE
    ELSE replace(attuale, ",", ".") = replace(richiesto, ",", ".")

----------------------------------------------------------------------------
(* Files, declared specifications and outcomes                              *)
(*   file   [path, exists, mime_fails, mime, corrupt, doc, word_pages, img]  *)
(*          mime_fails: the MIME detector raises; corrupt: the library that  *)
(*          opens the file raises; doc: the PDF document; word_pages: the    *)
(*          page count a Word document reports; img: [width, height, mode,   *)
(*          format] of an image, in pixels                                   *)
(*   specs  [formato, pagine_totali, stampa]: the declared values of one     *)
(*          role, each None when the key is absent                           *)
(***************************************************************************)

Roles == {"impaginato", "copertina"}

\* the print modes _analizza_pdf recognises, lines 201 and 203
BiancoENero == <<"b", "i", "a", "n", "c", "o", " ", "e", " ", "n", "e", "r", "o">>
Colori == <<"c", "o", "l", "o", "r", "i">>

PixelsPerCm == 11811   \* 118.11 pixels per centimetre, in hundredths of a pixel

MIME_PDF == "application/pdf"
MIME_DOCX == "application/vnd.openxmlformats-officedocument.wordprocessingml.document"

\* FileAnalyzer._ANALIZZATORI.get(mime_type)
_ANALIZZATORI(mime_type) ==
    CASE mime_type = MIME_PDF -> "_analizza_pdf"
      [] mime_type = MIME_DOCX -> "_analizza_word"
      [] mime_type \in {"image/jpeg", "image/png", "image/tiff"} -> "_analizza_immagine"
      [] OTHER -> ""

\* AnalysisOutcome(formato_file=...) with every other field at its default
AnalysisOutcome(formato_file) ==
    [formato_file |-> formato_file,
     numero_pagine |-> None, dimensioni |-> None, spazio_colore |-> None,
     profilo_stampa |-> None,
     esito_pagine |-> None, esito_formato |-> None, esito_protezione |-> None,
     esito_font_incorporati |-> None, esito_pagine_singole |-> None,
     esito_numerazione |-> None, esito_stampa |-> None,
     esito |-> "OK", messaggio |-> ""]

\* an error-kind outcome
ErrorOutcome(formato_file, messaggio) ==
    [AnalysisOutcome(formato_file) EXCEPT !.esito = "Errore", !.messaggio = messaggio]

EsitoFlags(o) ==
    {o.esito_pagine, o.esito_formato, o.esito_protezione, o.esito_font_incorporati,
     o.esito_pagine_singole, o.esito_numerazione, o.esito_stampa}

\* s.startswith(prefix)
startswith(s, prefix) ==
    Len(s) >= Len(prefix) /\ SubSeq(s, 1, Len(prefix)) = prefix

\* self.__dict__.items() of an AnalysisOutcome: the fields in the order of
\* their declaration, each name with its value (extra is an empty dict)
__dict__(o) ==
    <<<<<<"f", "o", "r", "m", "a", "t", "o", "_", "f", "i", "l", "e">>,
        o.formato_file>>,
      <<<<"n", "u", "m", "e", "r", "o", "_", "p", "a", "g", "i", "n", "e">>,
        o.numero_pagine>>,
      <<<<"d", "i", "m", "e", "n", "s", "i", "o", "n", "i">>,
        o.dimensioni>>,
      <<<<"s", "p", "a", "z", "i", "o", "_", "c", "o", "l", "o", "r", "e">>,
        o.spazio_colore>>,
      <<<<"p", "r", "o", "f", "i", "l", "o", "_", "s", "t", "a", "m", "p", "a">>,
        o.profilo_stampa>>,
      <<<<"e", "s", "i", "t", "o", "_", "p", "a", "g", "i", "n", "e">>,
        o.esito_pagine>>,
      <<<<"e", "s", "i", "t", "o", "_", "f", "o", "r", "m", "a", "t", "o">>,
        o.esito_formato>>,
      <<<<"e", "s", "i", "t", "o", "_", "p", "r", "o", "t", "e", "z", "i", "o", "n", "e">>,
        o.esito_protezione>>,
      <<<<"e", "s", "i", "t", "o", "_", "f", "o", "n", "t", "_", "i", "n", "c", "o", "r", "p", "o", "r", "a", "t", "i">>,
        o.esito_font_incorporati>>,
      <<<<"e", "s", "i", "t", "o", "_", "p", "a", "g", "i", "n", "e", "_", "s", "i", "n", "g", "o", "l", "e">>,
        o.esito_pagine_singole>>,
      <<<<"e", "s", "i", "t", "o", "_", "n", "u", "m", "e", "r", "a", "z", "i", "o", "n", "e">>,
        o.esito_numerazione>>,
      <<<<"e", "s", "i", "t", "o", "_", "s", "t", "a", "m", "p", "a">>,
        o.esito_stampa>>,
      <<<<"e", "s", "i", "t", "o">>,
        o.esito>>,
      <<<<"m", "e", "s", "s", "a", "g", "g", "i", "o">>,
        o.messaggio>>,
      <<<<"e", "x", "t", "r", "a">>, {}>>>>

\* AnalysisOutcome.conforme with "v is not True" for "v is False"
conforme_NoneFails(o) ==
    LET items == __dict__(o) IN
    IF \E i \in DOMAIN items :
          /\ startswith(items[i][1], <<"e", "s", "i", "t", "o", "_">>)
          /\ items[i][2] # Some(TRUE)
    THEN FALSE
    ELSE o.esito # "Errore"

\* AnalysisOutcome.conforme, lines 85-90: False at the first field whose name
\* starts with "esito_" and whose value is False, else esito != "Errore"
conforme(o) ==
    LET items == __dict__(o) IN
    IF \E i \in DOMAIN items :
          /\ startswith(items[i][1], <<"e", "s", "i", "t", "o", "_">>)
          /\ items[i][2] = Some(FALSE)
    THEN FALSE
    ELSE o.esito # "Errore"

\* specs.get(key, "") on the declared values of a role
SpecGet(specs, key) == IF specs[key] = None THEN << >> ELSE specs[key][1]

NoDoc == [encrypted |-> FALSE, pages |-> << >>]
NoImg == [width |-> 0, height |-> 0, mode |-> "", format |-> None]
NoFile == [path |-> "", exists |-> FALSE, mime_fails |-> FALSE, mime |-> "",
           corrupt |-> FALSE, doc |-> NoDoc, word_pages |-> 0, img |-> NoImg]
NoReader == [doc |-> NoDoc, stream |-> "none", cached |-> FALSE, decrypted |-> FALSE]
NoSpecs == [formato |-> None, pagine_totali |-> None, stampa |-> None]

\* the local variables of _analizza_pdf before any is assigned
NoLocals ==
    [mime_type |-> "", protezione_ok |-> FALSE, fonts_ok |-> FALSE, fonts_examined |-> 0,
     num_pagine |-> 0, dimensioni |-> << >>, pagine_singole |-> FALSE,
     numerazione_ok |-> FALSE, numerazione_examined |-> 0,
     stampa_bw |-> FALSE, profilo_stampa |-> << >>,
     esito_formato |-> FALSE, esito_n_pagine |-> FALSE, esito_stampa |-> FALSE,
     reads |-> << >>]

\* What the call has asked of the reader so far is kept in reads, in order: by
\* which function, what (reader.is_encrypted, or reader.pages and the objects
\* of its pages), and the state of the file object at that moment.
Access(by, what) == [by |-> by, what |-> what, fp |-> fp]

----------------------------------------------------------------------------
(* The files and declared specifications the sessions are run on *)

MaxPages == 2      \* pages per document
MaxFonts == 1      \* font entries per page
MaxCalls == 2      \* analizza_file calls of a session on one FileAnalyzer

\* all tuples over S of length at most n
SeqsUpTo(S, n) == UNION {[1..k -> S] : k \in 0..n}

Page(w, h, resources, text) ==
    [width |-> w, height |-> h, resources |-> resources, inherited |-> None,
     text |-> text, text_fails |-> FALSE]

Resources(fonts, xobjects) == Some([Font |-> fonts, XObject |-> xobjects])

Image(cs) == [Subtype |-> "/Image", ColorSpace |-> cs]
Form(cs) == [Subtype |-> "/Form", ColorSpace |-> cs]
NameCS(n) == [kind |-> "name", v |-> <<n>>]
ArrayCS(a) == [kind |-> "array", v |-> a]
NoCS == [kind |-> "none", v |-> << >>]

Font(descriptor) == [FontDescriptor |-> descriptor]

Pdf(path, doc) ==
    [NoFile EXCEPT !.path = path, !.exists = TRUE, !.mime = MIME_PDF, !.doc = doc]

Documents(pageSet, encSet) ==
    {[encrypted |-> e, pages |-> pp] : e \in encSet, pp \in SeqsUpTo(pageSet, MaxPages)}

PdfFiles(docs) == {Pdf("doc.pdf", d) : d \in docs}

\* A4, a second A4 whose measures differ below the rounding, A4 landscape
A4 == [width |-> 59527, height |-> 84189]   \* 595.27 x 841.89 pt

\* the page of the A4 scenario: one font without font program, one grayscale
\* image, the text "1"
ScenarioPage ==
    Page(A4.width, A4.height,
         Resources(Some(<<Font(Some({"/FontName"}))>>),
                   Some(<<Image(NameCS("/DeviceGray"))>>)),
         <<"1">>)

SecondPage ==
    Page(A4.width + 3, A4.height + 1,
         Resources(Some(<<Font(Some({"/FontName", "/FontFile2"}))>>),
                   Some(<<Image(NameCS("/DeviceRGB"))>>)),
         <<"2">>)

SpreadPage == Page(A4.height, A4.width, None, <<"a">>)

UnreadablePage == [Page(A4.width, A4.height, None, << >>) EXCEPT !.text_fails = TRUE]

ScenarioDoc == [encrypted |-> FALSE, pages |-> <<ScenarioPage>>]

\* files that are no readable PDF: one for each way analizza_file can go
OtherFiles ==
    {[NoFile EXCEPT !.path = "missing.pdf"],
     [NoFile EXCEPT !.path = "locked.pdf", !.exists = TRUE, !.mime_fails = TRUE],
     [NoFile EXCEPT !.path = "notes.txt", !.exists = TRUE, !.mime = "text/plain"],
     [NoFile EXCEPT !.path = "broken.pdf", !.exists = TRUE, !.mime = MIME_PDF,
                    !.corrupt = TRUE],
     [NoFile EXCEPT !.path = "book.docx", !.exists = TRUE, !.mime = MIME_DOCX,
                    !.word_pages = 1],
     [NoFile EXCEPT !.path = "broken.docx", !.exists = TRUE, !.mime = MIME_DOCX,
                    !.corrupt = TRUE],
     [NoFile EXCEPT !.path = "cover.png", !.exists = TRUE, !.mime = "image/png",
                    !.img = [width |-> 2480, height |-> 3508, mode |-> "RGB",
                             format |-> Some("PNG")]],
     [NoFile EXCEPT !.path = "scan.tiff", !.exists = TRUE, !.mime = "image/tiff",
                    !.img = [width |-> 2480, height |-> 3508, mode |-> "L",
                             format |-> None]],
     [NoFile EXCEPT !.path = "broken.jpg", !.exists = TRUE, !.mime = "image/jpeg",
                    !.corrupt = TRUE]}

\* declared values
F_21_0x29_7 == <<"2", "1", ",", "0", "x", "2", "9", ",", "7">>
F_21_0x29_7_cm == F_21_0x29_7 \o <<" ", "c", "m">>

ScenarioSpecs ==
    [formato |-> Some(F_21_0x29_7), pagine_totali |-> Some(<<"1">>),
     stampa |-> Some(BiancoENero)]

GeneralSpecs ==
    {[formato |-> f, pagine_totali |-> p, stampa |-> st] :
        f \in {None, Some(F_21_0x29_7), Some(F_21_0x29_7_cm)},
        p \in {None, Some(<<"1">>), Some(<<"1", "0">>), Some(<<"a", "b", "c">>)},
        st \in {None, Some(BiancoENero), Some(<<"C", "o", "l", "o", "r", "i">>)}}

\* the specifiche a FileAnalyzer is built with: the declared values for the
\* interior, and for the cover either none (what the parser produces) or the same
Specifiche(specSet) ==
    {[r \in Roles |-> IF r = "impaginato" THEN sp ELSE IF same THEN sp ELSE NoSpecs] :
        sp \in specSet, same \in BOOLEAN}

GeneralFiles ==
    PdfFiles(Documents({ScenarioPage, SecondPage, SpreadPage, UnreadablePage}, BOOLEAN))
    \cup OtherFiles

SessionFiles ==
    {Pdf("doc.pdf", ScenarioDoc),
     Pdf("two.pdf", [encrypted |-> FALSE, pages |-> <<ScenarioPage, SecondPage>>])}
    \cup {f \in OtherFiles : f.path \in {"missing.pdf", "book.docx"}}

\* documents that differ in their font resources only
FontDescriptors ==
    {None, Some({"/FontName"}), Some({"/FontName", "/FontFile2"}),
     Some({"/FontFile", "/FontFile3"})}

FontResources ==
    {None, Resources(None, None)}
    \cup {Resources(Some(ff), None) :
            ff \in SeqsUpTo({Font(d) : d \in FontDescriptors}, MaxFonts)}

FontFiles ==
    PdfFiles(Documents({Page(A4.width, A4.height, r, <<"1">>) : r \in FontResources}, {FALSE}))
    \cup OtherFiles

\* documents that differ in their page sizes only
PageSizes == {A4.width, A4.width + 3, A4.height} \X {0, A4.width, A4.height}

DimensioniFiles ==
    PdfFiles(Documents({Page(wh[1], wh[2], None, <<"1">>) : wh \in PageSizes}, {FALSE}))
    \cup OtherFiles

F_29_7x21_0 == <<"2", "9", ",", "7", "x", "2", "1", ",", "0">>

DimensioniSpecs ==
    {[ScenarioSpecs EXCEPT !.formato = f] :
        f \in {None, Some(<< >>)}
              \cup {Some(d) : d \in {F_21_0x29_7, F_29_7x21_0}}
              \cup {Some(replace(d, ",", ".")) : d \in {F_21_0x29_7, F_29_7x21_0}}
              \cup {Some(d \o <<" ", "c", "m">>) : d \in {F_21_0x29_7, F_29_7x21_0}}}

\* documents that differ in their page text only
\* page texts: without a number, with one, with several, with digits glued to
\* a letter
PageTexts ==
    {<< >>, <<"a">>, <<"1", "a">>, <<"1">>, <<"2">>, <<"3">>, <<"1", "0">>,
     <<"1", " ", "2">>, <<"3", " ", "1">>, <<"a", " ", "2", ".">>}

NumerazionePages ==
    {Page(A4.width, A4.height, None, t) : t \in PageTexts} \cup {UnreadablePage}

NumerazioneFiles ==
    PdfFiles(Documents(NumerazionePages, {FALSE})) \cup OtherFiles

\* documents and declarations for the print-mode check
StampaPages ==
    {Page(A4.width, A4.height, r, <<"1">>) :
        r \in {None, Resources(None, None),
               Resources(None, Some(<<Image(NameCS("/DeviceGray"))>>)),
               Resources(None, Some(<<Image(NameCS("/DeviceRGB"))>>)),
               Resources(None, Some(<<Image(ArrayCS(<<"/ICCBased">>))>>))}}

StampaFiles == PdfFiles(Documents(StampaPages, {FALSE})) \cup OtherFiles

StampaDeclared ==
    {None, Some(<< >>), Some(BiancoENero), Some(Colori),
     Some(<<" ">> \o BiancoENero \o <<" ">>),
     Some(<<"B", "I", "A", "N", "C", "O", " ", "E", " ", "N", "E", "R", "O">>),
     Some(<<"C", "o", "l", "o", "r", "i", " ">>),
     Some(<<"c", "o", "l", "o", "r", "e">>),
     Some(<<"n", "e", "r", "o">>)}

StampaSpecs == {[ScenarioSpecs EXCEPT !.stampa = st] : st \in StampaDeclared}

\* documents for the colour classifier: pages without resources, without
\* XObjects, with one or two XObjects; images with a named colour space, with
\* an array colour space, without colour space; a form XObject
XObjectLists ==
    {<< >>,
     <<Image(NameCS("/DeviceGray"))>>,
     <<Image(NameCS("/CalGray"))>>,
     <<Image(NameCS("/DeviceRGB"))>>,
     <<Image(ArrayCS(<<"/ICCBased", "/DeviceGray">>))>>,
     <<Image(ArrayCS(<<"/Indexed", "/DeviceGray">>))>>,
     <<Image(NoCS)>>,
     <<Form(NameCS("/DeviceRGB"))>>,
     <<Image(NameCS("/DeviceGray")), Image(NameCS("/DeviceRGB"))>>,
     <<Image(NameCS("/DeviceGray")), Image(NameCS("/CalGray"))>>,
     <<Form(NameCS("/DeviceRGB")), Image(NameCS("/DeviceGray"))>>}

ColoriPages ==
    {Page(A4.width, A4.height, r, <<"1">>) :
        r \in {None, Resources(None, None)}
               \cup {Resources(None, Some(x)) : x \in XObjectLists}}

ColoriFiles == PdfFiles(Documents(ColoriPages, {FALSE})) \cup OtherFiles

\* documents whose page tree passes Resources down: the page has no own
\* /Resources, an empty one, or one with an embedded font; the nearest
\* ancestor has none, a font without descriptor, a colour image, or an
\* embedded font and a grayscale image
OwnResources ==
    {None, Resources(None, None),
     Resources(Some(<<Font(Some({"/FontFile2"}))>>), None)}

AncestorResources ==
    {None,
     Resources(Some(<<Font(None)>>), None),
     Resources(None, Some(<<Image(NameCS("/DeviceRGB"))>>)),
     Resources(Some(<<Font(Some({"/FontFile2"}))>>),
               Some(<<Image(NameCS("/DeviceGray"))>>))}

RisorsePages ==
    {[Page(A4.width, A4.height, own, <<"1">>) EXCEPT !.inherited = anc] :
        own \in OwnResources, anc \in AncestorResources}

RisorseFiles == PdfFiles(Documents(RisorsePages, {FALSE})) \cup OtherFiles

\* specification texts: lines for the interior, the cover and neither, with
\* capitals and white space around key and value, a key given twice, a value
\* holding a colon, an empty key, and lines that are no "key: value" line
\* (blank, without colon, without value), joined by line feeds
MaxLines == 2

ScenarioText == <<"F", "o", "r", "m", "a", "t", "o", ":", " ", "A", "4">>

SpecLines ==
    {<<"F", "o", "r", "m", "a", "t", "o", ":", " ", "A", "4">>,
     <<" ", "S", "T", "A", "M", "P", "A", " ", ":", " ", " ", "C", "o", "l", "o", "r", "i", " ">>,
     <<"f", "o", "r", "m", "a", "t", "o", ":", " ", "A", "5">>,
     <<"R", "i", "l", "e", "g", "a", "t", "u", "r", "a", ":", " ", "b">>,
     <<"N", "o", "t", "e", ":", " ", "a", ":", "b">>,
     << >>,
     <<" ">>,
     <<"a", "b", "c">>,
     <<"I", "n", "t", "e", "r", "n", "o", ":">>,
     <<":", " ", "x">>}

RECURSIVE JoinLines(_)
JoinLines(ll) ==
    IF ll = << >> THEN << >>
    ELSE IF Len(ll) = 1 THEN ll[1]
    ELSE ll[1] \o <<"\n">> \o JoinLines(Tail(ll))

SpecTexts == {JoinLines(ll) : ll \in SeqsUpTo(SpecLines, MaxLines)}

\* specification texts that declare the number of pages, and the cover PDFs
\* analysed against them
ParsedLines ==
    {<<"P", "a", "g", "i", "n", "e", " ", "t", "o", "t", "a", "l", "i", ":", " ", "1">>,
     <<"p", "a", "g", "i", "n", "e", " ", "t", "o", "t", "a", "l", "i", " ", ":", " ", "2">>,
     <<"F", "o", "r", "m", "a", "t", "o", ":", " ", "2", "1", "x", "2", "9", ",", "7">>,
     <<"C", "o", "p", "e", "r", "t", "i", "n", "a", ":", " ", "x">>}

ParsedTexts == {JoinLines(ll) : ll \in SeqsUpTo(ParsedLines, MaxLines) \ {<< >>}}

ParsedFiles == PdfFiles(Documents({ScenarioPage, SecondPage}, BOOLEAN)) \cup OtherFiles

\* documents that differ in the ratio of the sides of their pages: 600 x 500
\* and 720 x 600 pt, both of ratio 1.2, a page just wider and one just
\* narrower, A4 upright and landscape, a page of height 0
RapportoSizes ==
    {<<60000, 50000>>, <<72000, 60000>>, <<60001, 50000>>, <<59999, 50000>>,
     <<A4.width, A4.height>>, <<A4.height, A4.width>>, <<60000, 0>>}

RapportoFiles ==
    PdfFiles(Documents({Page(wh[1], wh[2], None, <<"1">>) : wh \in RapportoSizes}, {FALSE}))
    \cup OtherFiles

\* dimensions in hundredths of a centimetre and box sides in hundredths of a
\* point: every one up to the bound, and the sides of the pages above
MaxCm == 3000

CmValues == 1..MaxCm

PtValues ==
    (1..MaxCm) \cup {wh[1] : wh \in PageSizes \cup RapportoSizes}
    \cup {wh[2] : wh \in PageSizes \cup RapportoSizes}

FilesOf(name) ==
    CASE name = "general" -> GeneralFiles
      [] name = "session" -> SessionFiles
      [] name = "fonts" -> FontFiles
      [] name = "dimensioni" -> DimensioniFiles
      [] name = "numerazione" -> NumerazioneFiles
      [] name = "stampa" -> StampaFiles
      [] name = "colori" -> ColoriFiles
      [] name = "risorse" -> RisorseFiles
      [] name = "rapporto" -> RapportoFiles
      [] name = "parsed" -> ParsedFiles

----------------------------------------------------------------------------
(* FileAnalyzer.analizza_file and the analyzers it selects *)

\* an error outcome returned without being stored
Finish_ErrorsNotStored(outcome) ==
    /\ risultati' = IF outcome.esito = "Errore" THEN risultati
                    ELSE [risultati EXCEPT ![tipo] = Some(outcome)]
    /\ ret' = Some(outcome)
    /\ pc' = "idle"

\* self._risultati[tipo] = outcome; return outcome
Finish(outcome) ==
    /\ risultati' = [risultati EXCEPT ![tipo] = Some(outcome)]
    /\ ret' = Some(outcome)
    /\ pc' = "idle"

\* an exception leaves the selected analyzer
Throw(e) ==
    /\ exc' = e
    /\ pc' = "except"

\* analizza_file(percorso, tipo) is entered for file f at percorso
Enter(f, t) ==
    /\ calls' = calls + 1
    /\ file' = f
    /\ tipo' = t
    /\ fp' = "none"
    /\ reader' = NoReader
    /\ exc' = NoExc
    /\ UNCHANGED <<specifiche, limit, folder, worker, conv, gui>>

\* analizza_file, lines 121-128: the path does not exist
AnalizzaFileNonTrovato ==
    /\ pc = "idle"
    /\ calls < limit
    /\ \E f \in FilesOf(folder), t \in Roles :
          /\ Enter(f, t)
          /\ ~f.exists
          /\ loc' = NoLocals
          /\ risultati' = [risultati EXCEPT
                 ![t] = Some(ErrorOutcome("sconosciuto", "File non trovato: " \o f.path))]
          /\ ret' = Some(ErrorOutcome("sconosciuto", "File non trovato: " \o f.path))
          /\ pc' = "idle"

\* analizza_file, lines 130-140: the MIME detector raises
AnalizzaFileMimeError ==
    /\ pc = "idle"
    /\ calls < limit
    /\ \E f \in FilesOf(folder), t \in Roles :
          /\ Enter(f, t)
          /\ f.exists /\ f.mime_fails
          /\ loc' = NoLocals
          /\ risultati' = [risultati EXCEPT
                 ![t] = Some(ErrorOutcome("sconosciuto", "cannot open file"))]
          /\ ret' = Some(ErrorOutcome("sconosciuto", "cannot open file"))
          /\ pc' = "idle"

\* analizza_file, lines 142-150: no analyzer is registered for the MIME type
AnalizzaFileNonSupportato ==
    /\ pc = "idle"
    /\ calls < limit
    /\ \E f \in FilesOf(folder), t \in Roles :
          /\ Enter(f, t)
          /\ f.exists /\ ~f.mime_fails
          /\ _ANALIZZATORI(f.mime) = ""
          /\ loc' = NoLocals
          /\ risultati' = [risultati EXCEPT
                 ![t] = Some(ErrorOutcome(f.mime, "Formato non supportato: " \o f.mime))]
          /\ ret' = Some(ErrorOutcome(f.mime, "Formato non supportato: " \o f.mime))
          /\ pc' = "idle"

\* an outcome stored for the role is returned instead of analysing the file
AnalizzaFileDispatch_Cached ==
    /\ pc = "idle"
    /\ calls < limit
    /\ \E f \in FilesOf(folder), t \in Roles :
          /\ Enter(f, t)
          /\ f.exists /\ ~f.mime_fails
          /\ _ANALIZZATORI(f.mime) # ""
          /\ loc' = [NoLocals EXCEPT !.mime_type = f.mime]
          /\ IF risultati[t] # None
             THEN /\ ret' = risultati[t]
                  /\ pc' = "idle"
                  /\ risultati' = risultati
             ELSE /\ pc' = _ANALIZZATORI(f.mime)
                  /\ UNCHANGED <<risultati, ret>>

\* analizza_file, lines 142 and 153-154: the selected analyzer is called
AnalizzaFileDispatch ==
    /\ pc = "idle"
    /\ calls < limit
    /\ \E f \in FilesOf(folder), t \in Roles :
          /\ Enter(f, t)
          /\ f.exists /\ ~f.mime_fails
          /\ _ANALIZZATORI(f.mime) # ""
          /\ loc' = [NoLocals EXCEPT !.mime_type = f.mime]
          /\ pc' = _ANALIZZATORI(f.mime)
          /\ UNCHANGED <<risultati, ret>>

\* _analizza_pdf, line 178: open(percorso, "rb")
PdfOpen ==
    /\ pc = "_analizza_pdf"
    /\ fp' = "open"
    /\ pc' = "pdf_reader"
    /\ UNCHANGED <<specifiche, risultati, file, tipo, reader, loc, exc, ret, calls, limit, folder, worker, conv, gui>>

\* _analizza_pdf, line 179: reader = PdfReader(fp).  The constructor reads the
\* trailer; whether it leaves the objects in memory (cached) and whether an
\* encrypted document opens without a password (decrypted) is the library's.
PdfReaderInit(cached, decrypted) ==
    /\ pc = "pdf_reader"
    /\ IF file.corrupt
       THEN /\ exc' = [type |-> "PdfReadError", msg |-> "EOF marker not found"]
            /\ reader' = reader
       ELSE /\ exc' = exc
            /\ reader' = [doc |-> file.doc, stream |-> "open", cached |-> cached,
                          decrypted |-> IF file.doc.encrypted THEN decrypted ELSE TRUE]
    /\ pc' = "pdf_with_exit"
    /\ UNCHANGED <<specifiche, risultati, file, tipo, fp, loc, ret, calls, limit, folder, worker, conv, gui>>

\* the file closed on the normal path only
PdfWithExit_OpenOnError ==
    /\ pc = "pdf_with_exit"
    /\ fp' = IF exc # NoExc THEN "open" ELSE "closed"
    /\ reader' = IF reader = NoReader THEN reader ELSE [reader EXCEPT !.stream = "closed"]
    /\ pc' = IF exc # NoExc THEN "except" ELSE "pdf_fonts"
    /\ UNCHANGED <<specifiche, risultati, file, tipo, loc, exc, ret, calls, limit, folder, worker, conv, gui>>

\* _analizza_pdf, lines 178-179: leaving the with block closes the file, on
\* the normal path and when the constructor has raised
PdfWithExit ==
    /\ pc = "pdf_with_exit"
    /\ fp' = "closed"
    /\ reader' = IF reader = NoReader THEN reader ELSE [reader EXCEPT !.stream = "closed"]
    /\ pc' = IF exc # NoExc THEN "except" ELSE "pdf_fonts"
    /\ UNCHANGED <<specifiche, risultati, file, tipo, loc, exc, ret, calls, limit, folder, worker, conv, gui>>

\* _analizza_pdf, lines 181-182
PdfFonts ==
    /\ pc = "pdf_fonts"
    /\ LET protezione_ok == ~is_encrypted(reader)
           check == _check_all_fonts_incorporati(reader)
       IN  loc' = [loc EXCEPT
               !.protezione_ok = protezione_ok,
               !.fonts_ok = protezione_ok /\ check.val,
               !.fonts_examined = IF protezione_ok THEN check.examined ELSE 0,
               !.reads = @ \o <<Access("_analizza_pdf", "is_encrypted")>>
                         \o IF protezione_ok
                            THEN <<Access("_check_all_fonts_incorporati", "pages")>>
                            ELSE << >>]
    /\ pc' = "pdf_num_pagine"
    /\ UNCHANGED <<specifiche, risultati, file, tipo, fp, reader, exc, ret, calls, limit, folder, worker, conv, gui>>

\* _analizza_pdf, line 183
PdfNumPagine ==
    /\ pc = "pdf_num_pagine"
    /\ IF loc.protezione_ok /\ Raised(pages(reader))
       THEN /\ Throw(pages(reader).exc)
            /\ loc' = [loc EXCEPT !.reads = Append(@, Access("_analizza_pdf", "pages"))]
       ELSE /\ loc' = [loc EXCEPT
                   !.num_pagine = IF loc.protezione_ok THEN Len(pages(reader).val) ELSE 0,
                   !.reads = IF loc.protezione_ok
                             THEN Append(@, Access("_analizza_pdf", "pages")) ELSE @]
            /\ pc' = "pdf_dimensioni"
            /\ exc' = exc
    /\ UNCHANGED <<specifiche, risultati, file, tipo, fp, reader, ret, calls, limit, folder, worker, conv, gui>>

\* the cover treated like the interior
PdfDimensioni_CoverAsInterior ==
    /\ pc = "pdf_dimensioni"
    /\ LET r == _dimensioni_impaginato(reader)
           read == Access("_dimensioni_impaginato", "pages") IN
       IF Raised(r)
       THEN Throw(r.exc) /\ loc' = [loc EXCEPT !.reads = Append(@, read)]
       ELSE /\ loc' = [loc EXCEPT !.dimensioni = r.val[1], !.pagine_singole = r.val[2],
                                  !.reads = Append(@, read)]
            /\ pc' = "pdf_numerazione"
            /\ exc' = exc
    /\ UNCHANGED <<specifiche, risultati, file, tipo, fp, reader, ret, calls, limit, folder, worker, conv, gui>>

\* _analizza_pdf, lines 186-187 (impaginato) and 190-194 (copertina)
PdfDimensioni ==
    /\ pc = "pdf_dimensioni"
    /\ IF tipo = "impaginato"
       THEN LET r == _dimensioni_impaginato(reader)
                read == Access("_dimensioni_impaginato", "pages") IN
            IF Raised(r)
            THEN Throw(r.exc) /\ loc' = [loc EXCEPT !.reads = Append(@, read)]
            ELSE /\ loc' = [loc EXCEPT !.dimensioni = r.val[1], !.pagine_singole = r.val[2],
                                       !.reads = Append(@, read)]
                 /\ pc' = "pdf_numerazione"
                 /\ exc' = exc
       ELSE LET r == _dimensioni_prima_pagina(reader)
                read == Access("_dimensioni_prima_pagina", "pages") IN
            IF Raised(r)
            THEN Throw(r.exc) /\ loc' = [loc EXCEPT !.reads = Append(@, read)]
            ELSE /\ loc' = [loc EXCEPT !.dimensioni = r.val, !.pagine_singole = TRUE,
                                       !.numerazione_ok = TRUE, !.stampa_bw = TRUE,
                                       !.profilo_stampa = << >>,
                                       !.reads = Append(@, read)]
                 /\ pc' = "pdf_formato"
                 /\ exc' = exc
    /\ UNCHANGED <<specifiche, risultati, file, tipo, fp, reader, ret, calls, limit, folder, worker, conv, gui>>

\* _analizza_pdf, line 188
PdfNumerazione ==
    /\ pc = "pdf_numerazione"
    /\ LET r == _check_page_numbering_consecutive(reader)
           read == Access("_check_page_numbering_consecutive", "pages") IN
       IF loc.protezione_ok /\ Raised(r)
       THEN Throw(r.exc) /\ loc' = [loc EXCEPT !.reads = Append(@, read)]
       ELSE /\ loc' = [loc EXCEPT
                   !.numerazione_ok = IF loc.protezione_ok THEN r.val ELSE FALSE,
                   !.numerazione_examined = IF loc.protezione_ok THEN r.examined ELSE 0,
                   !.reads = IF loc.protezione_ok THEN Append(@, read) ELSE @]
            /\ pc' = "pdf_stampa"
            /\ exc' = exc
    /\ UNCHANGED <<specifiche, risultati, file, tipo, fp, reader, ret, calls, limit, folder, worker, conv, gui>>

\* _analizza_pdf, line 189
PdfStampa ==
    /\ pc = "pdf_stampa"
    /\ LET r == _check_stampa_pdf(reader)
           read == Access("_check_stampa_pdf", "pages") IN
       IF Raised(r)
       THEN Throw(r.exc) /\ loc' = [loc EXCEPT !.reads = Append(@, read)]
       ELSE /\ loc' = [loc EXCEPT !.stampa_bw = r.val[1], !.profilo_stampa = r.val[2],
                                  !.reads = Append(@, read)]
            /\ pc' = "pdf_formato"
            /\ exc' = exc
    /\ UNCHANGED <<specifiche, risultati, file, tipo, fp, reader, ret, calls, limit, folder, worker, conv, gui>>

\* _analizza_pdf, lines 196-197
PdfFormato ==
    /\ pc = "pdf_formato"
    /\ loc' = [loc EXCEPT !.esito_formato =
                 IF loc.protezione_ok
                 THEN _verifica_formato(loc.dimensioni, SpecGet(specifiche[tipo], "formato"))
                 ELSE FALSE]
    /\ pc' = "pdf_pagine"
    /\ UNCHANGED <<specifiche, risultati, file, tipo, fp, reader, exc, ret, calls, limit, folder, worker, conv, gui>>

\* int(specs.get("pagine totali", 0))
DeclaredPages(specs) ==
    IF specs.pagine_totali = None THEN Ok(0) ELSE int(specs.pagine_totali[1])

\* _analizza_pdf, line 198
PdfPagine ==
    /\ pc = "pdf_pagine"
    /\ LET declared == DeclaredPages(specifiche[tipo]) IN
       IF loc.protezione_ok /\ Raised(declared)
       THEN Throw(declared.exc) /\ loc' = loc
       ELSE /\ loc' = [loc EXCEPT !.esito_n_pagine =
                         IF loc.protezione_ok THEN loc.num_pagine = declared.val ELSE FALSE]
            /\ pc' = "pdf_esito_stampa"
            /\ exc' = exc
    /\ UNCHANGED <<specifiche, risultati, file, tipo, fp, reader, ret, calls, limit, folder, worker, conv, gui>>

\* the reconciliation comparing the declared value as written, trimmed only
EsitoStampa_NoLower(declared, stampa_bw) ==
    LET expected_stampa == strip(declared) IN
    IF expected_stampa = BiancoENero THEN stampa_bw
    ELSE IF expected_stampa = Colori THEN ~stampa_bw
    ELSE TRUE

\* _analizza_pdf, lines 200-206
EsitoStampa(declared, stampa_bw) ==
    LET expected_stampa == strip(lower(declared)) IN
    IF expected_stampa = BiancoENero THEN stampa_bw
    ELSE IF expected_stampa = Colori THEN ~stampa_bw
    ELSE TRUE

PdfEsitoStampa ==
    /\ pc = "pdf_esito_stampa"
    /\ loc' = [loc EXCEPT !.esito_stampa =
                 EsitoStampa(SpecGet(specifiche[tipo], "stampa"), loc.stampa_bw)]
    /\ pc' = "pdf_return"
    /\ UNCHANGED <<specifiche, risultati, file, tipo, fp, reader, exc, ret, calls, limit, folder, worker, conv, gui>>

\* _analizza_pdf, lines 208-220, and analizza_file, lines 163-164
PdfReturn ==
    /\ pc = "pdf_return"
    /\ Finish([AnalysisOutcome("PDF") EXCEPT
           !.numero_pagine = Some(loc.num_pagine),
           !.dimensioni = Some(loc.dimensioni),
           !.profilo_stampa = Some(loc.profilo_stampa),
           !.esito_pagine = Some(loc.esito_n_pagine),
           !.esito_formato = Some(loc.esito_formato),
           !.esito_protezione = Some(loc.protezione_ok),
           !.esito_font_incorporati = Some(loc.fonts_ok),
           !.esito_pagine_singole = Some(loc.pagine_singole),
           !.esito_numerazione = Some(loc.numerazione_ok),
           !.esito_stampa = Some(loc.esito_stampa)])
    /\ UNCHANGED <<specifiche, file, tipo, fp, reader, loc, exc, calls, limit, folder, worker, conv, gui>>

\* _analizza_word, lines 224-246, and analizza_file, lines 163-164
AnalizzaWord ==
    /\ pc = "_analizza_word"
    /\ LET declared == DeclaredPages(specifiche[tipo]) IN
       IF file.corrupt
       THEN /\ Throw([type |-> "PackageNotFoundError", msg |-> "Package not found"])
            /\ UNCHANGED <<risultati, ret>>
       ELSE IF Raised(declared)
       THEN /\ Throw(declared.exc)
            /\ UNCHANGED <<risultati, ret>>
       ELSE /\ Finish([AnalysisOutcome("WORD") EXCEPT
                   !.numero_pagine = Some(file.word_pages),
                   !.esito_pagine = Some(file.word_pages = declared.val)])
            /\ exc' = exc
    /\ UNCHANGED <<specifiche, file, tipo, fp, reader, loc, calls, limit, folder, worker, conv, gui>>

\* img.width / 118.11 formatted with f"{x:.1f}": tenths of a centimetre
PxCmTenths(px) == (2000 * px + PixelsPerCm) \div (2 * PixelsPerCm)

SpazioColore(mode) ==
    CASE mode = "RGB" -> "RGB" [] mode = "CMYK" -> "CMYK" [] mode = "L" -> "Scala di Grigi"
      [] OTHER -> "Sconosciuto"

\* _analizza_immagine, lines 250-264, and analizza_file, lines 163-164
AnalizzaImmagine ==
    /\ pc = "_analizza_immagine"
    /\ IF file.corrupt
       THEN /\ Throw([type |-> "UnidentifiedImageError", msg |-> "cannot identify image file"])
            /\ UNCHANGED <<risultati, ret>>
       ELSE LET dimensioni ==
                    replace(format_1f(PxCmTenths(file.img.width)) \o <<"x">>
                            \o format_1f(PxCmTenths(file.img.height)) \o <<" ", "c", "m">>,
                            ".", ",")
            IN  /\ Finish([AnalysisOutcome(IF file.img.format = None THEN "IMG"
                                           ELSE file.img.format[1]) EXCEPT
                       !.dimensioni = Some(dimensioni),
                       !.spazio_colore = Some(SpazioColore(file.img.mode)),
                       !.esito_formato = Some(_verifica_formato(dimensioni,
                                               SpecGet(specifiche[tipo], "formato")))])
                /\ exc' = exc
    /\ UNCHANGED <<specifiche, file, tipo, fp, reader, loc, calls, limit, folder, worker, conv, gui>>

\* analizza_file without its except clause: the analyzer's exception leaves
\* analizza_file
AnalizzaFileExcept_Propagate ==
    /\ pc = "except"
    /\ pc' = "propagated"
    /\ UNCHANGED <<specifiche, risultati, file, tipo, fp, reader, loc, exc, ret, calls,
                   limit, folder, worker, conv, gui>>

\* analizza_file, lines 155-164: the analyzer's exception becomes an outcome
AnalizzaFileExcept ==
    /\ pc = "except"
    /\ Finish(ErrorOutcome(loc.mime_type, exc.msg))
    /\ UNCHANGED <<specifiche, file, tipo, fp, reader, loc, exc, calls, limit, folder, worker, conv, gui>>

----------------------------------------------------------------------------
(* SpecificheParser: the specification text, a str, is a tuple of characters; *)
(* a dict is the set of its <<key, value>> items                             *)

IMPAGINATO_KEYS ==
    {<<"f", "o", "r", "m", "a", "t", "o">>,
     <<"s", "t", "a", "m", "p", "a">>,
     <<"p", "a", "g", "i", "n", "e", " ", "t", "o", "t", "a", "l", "i">>,
     <<"p", "a", "g", "i", "n", "e", " ", "c", "o", "l", "o", "r", "i">>,
     <<"i", "n", "t", "e", "r", "n", "o">>}

COPERTINA_KEYS ==
    {<<"c", "o", "p", "e", "r", "t", "i", "n", "a">>,
     <<"p", "l", "a", "s", "t", "i", "f", "i", "c", "a", "z", "i", "o", "n", "e">>,
     <<"r", "i", "l", "e", "g", "a", "t", "u", "r", "a">>}

\* Specifiche(): three empty dicts
EmptySpecifiche == [impaginato |-> {}, copertina |-> {}, extra |-> {}]

\* d[key] = value
SetItem(d, key, value) == {item \in d : item[1] # key} \cup {<<key, value>>}

\* raw_text.splitlines()
RECURSIVE SplitFrom(_, _, _)
SplitFrom(text, i, line) ==
    IF i > Len(text) THEN (IF line = << >> THEN << >> ELSE <<line>>)
    ELSE IF text[i] = "\n" THEN <<line>> \o SplitFrom(text, i + 1, << >>)
    ELSE SplitFrom(text, i + 1, Append(line, text[i]))

splitlines(text) == SplitFrom(text, 1, << >>)

\* _key_val_re.match(line) for ^(.*?):\s*(.+)$ : the key group ends before the
\* first colon that has a character after it; the value group starts after
\* the white space that follows the colon, or is the last white-space
\* character when nothing else follows.  None without a match, else the two
\* groups.
_key_val_re_match(line) ==
    LET colons == {i \in DOMAIN line : line[i] = ":" /\ i < Len(line)}
    IN  IF colons = {} THEN None
        ELSE LET k == CHOOSE i \in colons : \A j \in colons : i <= j
                 rest == SubSeq(line, k + 1, Len(line))
             IN  Some(<<SubSeq(line, 1, k - 1),
                        IF lstrip(rest) = << >> THEN <<rest[Len(rest)]>>
                        ELSE lstrip(rest)>>)

\* the key otherwise routed to extra is dropped
ParseLine_DropExtra(sp, raw_line) ==
    Only({Only({
        IF line = << >> \/ match = None THEN sp
        ELSE Only({IF key \in IMPAGINATO_KEYS
                   THEN [sp EXCEPT !.impaginato = SetItem(@, key, value)]
                   ELSE IF key \in COPERTINA_KEYS
                   THEN [sp EXCEPT !.copertina = SetItem(@, key, value)]
                   ELSE sp :
                     key \in {lower(strip(match[1][1]))},
                     value \in {strip(match[1][2])}}) :
            match \in {_key_val_re_match(line)}}) :
        line \in {strip(raw_line)}})

\* a key of the interior stored for the cover as well
ParseLine_SharedKeys(sp, raw_line) ==
    Only({Only({
        IF line = << >> \/ match = None THEN sp
        ELSE Only({IF key \in IMPAGINATO_KEYS
                   THEN [sp EXCEPT !.impaginato = SetItem(@, key, value),
                                   !.copertina = SetItem(@, key, value)]
                   ELSE IF key \in COPERTINA_KEYS
                   THEN [sp EXCEPT !.copertina = SetItem(@, key, value)]
                   ELSE [sp EXCEPT !.extra = SetItem(@, key, value)] :
                     key \in {lower(strip(match[1][1]))},
                     value \in {strip(match[1][2])}}) :
            match \in {_key_val_re_match(line)}}) :
        line \in {strip(raw_line)}})

\* _parse, lines 113-131: the body of the loop for one line
ParseLine(sp, raw_line) ==
    Only({Only({
        IF line = << >> \/ match = None THEN sp
        ELSE Only({IF key \in IMPAGINATO_KEYS
                   THEN [sp EXCEPT !.impaginato = SetItem(@, key, value)]
                   ELSE IF key \in COPERTINA_KEYS
                   THEN [sp EXCEPT !.copertina = SetItem(@, key, value)]
                   ELSE [sp EXCEPT !.extra = SetItem(@, key, value)] :
                     key \in {lower(strip(match[1][1]))},
                     value \in {strip(match[1][2])}}) :
            match \in {_key_val_re_match(line)}}) :
        line \in {strip(raw_line)}})

\* _parse: the loop over raw_text.splitlines()
RECURSIVE ParseFrom(_, _, _)
ParseFrom(lines, i, sp) ==
    IF i > Len(lines) THEN sp
    ELSE Only({ParseFrom(lines, i + 1, next) : next \in {ParseLine(sp, lines[i])}})

_parse(raw_text) ==
    Only({ParseFrom(lines, 1, EmptySpecifiche) : lines \in {splitlines(raw_text)}})

\* SpecificheParser(raw_text).get_specifiche()
SpecificheParser(raw_text) ==
    IF strip(raw_text) = << >>
    THEN Raise("ValueError", "Il testo delle specifiche è vuoto.")
    ELSE Ok(_parse(raw_text))

----------------------------------------------------------------------------
(* AnalysisWorker: testo, impaginato and copertina are the constructor's     *)
(* arguments (a path is None or <<path>>), specifiche the parsed object,     *)
(* emitted the signals sent so far                                           *)

NoWorker ==
    [pc |-> "none", testo |-> << >>, impaginato |-> None, copertina |-> None,
     specifiche |-> None, exc |-> NoExc, emitted |-> << >>]

\* AnalysisWorker.run, lines 70-71
WorkerParser ==
    /\ worker.pc = "run"
    /\ LET r == SpecificheParser(worker.testo) IN
       IF Raised(r)
       THEN worker' = [worker EXCEPT !.exc = r.exc, !.pc = "except"]
       ELSE worker' = [worker EXCEPT !.specifiche = Some(r.val), !.pc = "analyzer"]
    /\ UNCHANGED <<specifiche, risultati, pc, file, tipo, fp, reader, loc, exc, ret,
                   calls, limit, folder, conv, gui>>

\* AnalysisWorker.run, line 72: FileAnalyzer(specifiche.__dict__).  Specifiche
\* is a dataclass with slots=True, its instances have no __dict__.
WorkerFileAnalyzer ==
    /\ worker.pc = "analyzer"
    /\ worker' = [worker EXCEPT
           !.exc = [type |-> "AttributeError",
                    msg |-> "'Specifiche' object has no attribute '__dict__'"],
           !.pc = "except"]
    /\ UNCHANGED <<specifiche, risultati, pc, file, tipo, fp, reader, loc, exc, ret,
                   calls, limit, folder, conv, gui>>

\* the except clause logging the exception without sending a signal
WorkerExcept_Silent ==
    /\ worker.pc = "except"
    /\ worker' = [worker EXCEPT !.pc = "done"]
    /\ UNCHANGED <<specifiche, risultati, pc, file, tipo, fp, reader, loc, exc, ret,
                   calls, limit, folder, conv, gui>>

\* AnalysisWorker.run, lines 79-81: self.error.emit(str(exc))
WorkerExcept ==
    /\ worker.pc = "except"
    /\ worker' = [worker EXCEPT
           !.emitted = Append(@, [signal |-> "error", args |-> <<worker.exc.msg>>]),
           !.pc = "done"]
    /\ UNCHANGED <<specifiche, risultati, pc, file, tipo, fp, reader, loc, exc, ret,
                   calls, limit, folder, conv, gui>>

----------------------------------------------------------------------------
(* Lines 299-300 of _dimensioni_impaginato on one side of a box: value is    *)
(* the input, a dimension in hundredths of a centimetre (unit "cm", the box  *)
(* side is value / 100 * 28.35 points) or a box side in hundredths of a      *)
(* point (unit "pt"); larg_s is the string line 300 gives, diretto the       *)
(* string the same formatting gives for the dimension itself                 *)

NoConv == [pc |-> "none", unit |-> "cm", value |-> 0, larg_s |-> << >>, diretto |-> << >>]

\* f"{x:.1f}".replace(".", ",") for a float x
format_float(x) ==
    Only({replace(s, ".", ",") : s \in {format_1f(t) : t \in {FloatTenths(x)}}})

\* the box side is w * 28.35 for a dimension w in centimetres
ConvertiCm ==
    /\ conv.pc = "start"
    /\ conv.unit = "cm"
    /\ \E w \in {ToFloat(conv.value, 100)} :
           conv' = [conv EXCEPT
                       !.larg_s = format_float(points_to_cm(FloatMul(w, F28_35))),
                       !.diretto = format_float(w),
                       !.pc = "done"]
    /\ UNCHANGED <<specifiche, risultati, pc, file, tipo, fp, reader, loc, exc, ret,
                   calls, limit, folder, worker, gui>>

\* the box side is read from the document
ConvertiBox ==
    /\ conv.pc = "start"
    /\ conv.unit = "pt"
    /\ conv' = [conv EXCEPT !.larg_s = format_float(points_to_cm(box_float(conv.value))),
                            !.pc = "done"]
    /\ UNCHANGED <<specifiche, risultati, pc, file, tipo, fp, reader, loc, exc, ret,
                   calls, limit, folder, worker, gui>>

----------------------------------------------------------------------------
(* Specifications *)

----------------------------------------------------------------------------
(* FileCheckerMainWindow.  txt_specs is the text of the specification box,   *)
(* file_impaginato and file_copertina the selected paths, btn_verify whether *)
(* the verify button is enabled, progress the progress dialog (none before   *)
(* the first analysis, then shown or closed), msgbox the last message box,   *)
(* table the rows of the result table, report_generator the ReportGenerator  *)
(* kept for the export and report what the last export wrote.  clicks counts *)
(* the clicks on the verify button, started the workers started; in_flight   *)
(* holds the numbers of the workers started whose signal no handler has run  *)
(* for, handled counts the signals of self._worker the handlers have run for.*)
(* The risultati of a worker is the sequence of its (role, outcome) items in *)
(* insertion order.                                                          *)

NoGui ==
    [txt_specs |-> << >>, file_impaginato |-> None, file_copertina |-> None,
     btn_verify |-> TRUE, progress |-> "none", msgbox |-> None,
     table |-> << >>, report_generator |-> None, report |-> None,
     clicks |-> 0, started |-> 0, in_flight |-> {}, handled |-> 0]

MaxClicks == 2     \* clicks on the verify button

Path(name) == [parent |-> "/home/user", name |-> name]

\* QMessageBox.critical / warning / information
MessageBox(icon, text) == Some([icon |-> icon, text |-> text])

\* the progress dialog is window modal: while it is shown the window takes no
\* input
Modal == gui.progress = "shown"

\* _select_impaginato, lines 174-180, with a file chosen in the dialog
_select_impaginato ==
    /\ ~Modal
    /\ gui.file_impaginato = None
    /\ gui' = [gui EXCEPT !.file_impaginato = Some(Path("doc.pdf"))]
    /\ UNCHANGED <<specifiche, risultati, pc, file, tipo, fp, reader, loc, exc, ret,
                   calls, limit, folder, worker, conv>>

\* _select_copertina, lines 182-188, with a file chosen in the dialog
_select_copertina ==
    /\ ~Modal
    /\ gui.file_copertina = None
    /\ gui' = [gui EXCEPT !.file_copertina = Some(Path("cover.pdf"))]
    /\ UNCHANGED <<specifiche, risultati, pc, file, tipo, fp, reader, loc, exc, ret,
                   calls, limit, folder, worker, conv>>

\* _start_analysis leaving the verify button enabled
_start_analysis_ButtonEnabled ==
    /\ ~Modal
    /\ gui.btn_verify
    /\ gui.clicks < MaxClicks
    /\ LET specs_txt == strip(gui.txt_specs) IN
       IF specs_txt = << >>
       THEN /\ gui' = [gui EXCEPT
                   !.clicks = @ + 1,
                   !.msgbox = MessageBox("critical",
                       "Inserisci le specifiche prima di avviare la verifica.")]
            /\ worker' = worker
       ELSE /\ gui' = [gui EXCEPT
                   !.clicks = @ + 1,
                   !.progress = "shown",
                   !.started = @ + 1,
                   !.in_flight = @ \cup {gui.started + 1},
                   !.handled = 0]
            /\ worker' = [NoWorker EXCEPT !.pc = "run", !.testo = specs_txt,
                                          !.impaginato = gui.file_impaginato,
                                          !.copertina = gui.file_copertina]
    /\ UNCHANGED <<specifiche, risultati, pc, file, tipo, fp, reader, loc, exc, ret,
                   calls, limit, folder, conv>>

\* _start_analysis, lines 194-209, the slot of the verify button's clicked
\* signal, which a disabled button does not send
_start_analysis ==
    /\ ~Modal
    /\ gui.btn_verify
    /\ gui.clicks < MaxClicks
    /\ LET specs_txt == strip(gui.txt_specs) IN
       IF specs_txt = << >>
       THEN /\ gui' = [gui EXCEPT
                   !.clicks = @ + 1,
                   !.msgbox = MessageBox("critical",
                       "Inserisci le specifiche prima di avviare la verifica.")]
            /\ worker' = worker
       ELSE /\ gui' = [gui EXCEPT
                   !.clicks = @ + 1,
                   !.progress = "shown",
                   !.btn_verify = FALSE,
                   !.started = @ + 1,
                   !.in_flight = @ \cup {gui.started + 1},
                   !.handled = 0]
            /\ worker' = [NoWorker EXCEPT !.pc = "run", !.testo = specs_txt,
                                          !.impaginato = gui.file_impaginato,
                                          !.copertina = gui.file_copertina]
    /\ UNCHANGED <<specifiche, risultati, pc, file, tipo, fp, reader, loc, exc, ret,
                   calls, limit, folder, conv>>

\* the signal of self._worker whose slot is the next to run
Pending(signal) ==
    /\ Len(worker.emitted) > gui.handled
    /\ worker.emitted[gui.handled + 1].signal = signal

\* tipo.capitalize()
capitalize(s) ==
    CASE s = "impaginato" -> "Impaginato"
      [] s = "copertina" -> "Copertina"
      [] OTHER -> s

\* _on_analysis_finished, lines 217-228: the row of one item of risultati
TableRow(item) ==
    [tipo |-> capitalize(item[1]),
     nome_file |-> IF item[1] = "impaginato" THEN gui.file_impaginato[1].name
                   ELSE IF gui.file_copertina # None THEN gui.file_copertina[1].name
                   ELSE "-",
     formato |-> item[2].formato_file,
     dimensioni |-> IF item[2].dimensioni = None THEN << >> ELSE item[2].dimensioni[1],
     stato |-> IF conforme(item[2]) THEN "Conforme" ELSE "Non Conforme"]

\* ReportGenerator.__init__, lines 74-94
ReportGenerator(specs, results) ==
    [specs_dict |-> [impaginato |-> specs.impaginato, copertina |-> specs.copertina],
     results |-> results]

\* _on_analysis_finished, lines 211-231, the slot of the worker's finished
\* signal
_on_analysis_finished ==
    /\ Pending("finished")
    /\ LET args == worker.emitted[gui.handled + 1].args
           risultati_ == args[2]
       IN  gui' = [gui EXCEPT
               !.progress = "closed",
               !.btn_verify = TRUE,
               !.table = [i \in DOMAIN risultati_ |-> TableRow(risultati_[i])],
               !.report_generator = Some(ReportGenerator(args[1], risultati_)),
               !.handled = @ + 1,
               !.in_flight = @ \ {gui.started}]
    /\ UNCHANGED <<specifiche, risultati, pc, file, tipo, fp, reader, loc, exc, ret,
                   calls, limit, folder, worker, conv>>

\* _on_analysis_error, lines 233-236, the slot of the worker's error signal
_on_analysis_error ==
    /\ Pending("error")
    /\ gui' = [gui EXCEPT
           !.progress = "closed",
           !.btn_verify = TRUE,
           !.msgbox = MessageBox("critical", worker.emitted[gui.handled + 1].args[1]),
           !.handled = @ + 1,
           !.in_flight = @ \ {gui.started}]
    /\ UNCHANGED <<specifiche, risultati, pc, file, tipo, fp, reader, loc, exc, ret,
                   calls, limit, folder, worker, conv>>

\* generate_pdf, lines 195-199: the sections the report has
Sections(results) ==
    SelectSeq(<<"impaginato", "copertina">>,
              LAMBDA section : \E i \in DOMAIN results : results[i][1] = section)

\* generate_pdf, line 210: all(r.conforme for r in self._results.values())
globale(results) == \A i \in DOMAIN results : conforme(results[i][2])

\* generate_pdf, lines 107-239, as what the report says
generate_pdf(rg) ==
    [sections |-> Sections(rg.results),
     esito_finale |-> IF globale(rg.results) THEN "CONFORME" ELSE "NON CONFORME"]

\* _export_report, lines 242-257, with a directory chosen in the dialog;
\* pdf_ok, txt_ok: the report file could be written
_export_report(pdf_ok, txt_ok) ==
    /\ ~Modal
    /\ IF gui.report_generator = None
       THEN gui' = [gui EXCEPT !.msgbox = MessageBox("warning",
                        "Esegui prima la verifica per generare il report.")]
       ELSE gui' = [gui EXCEPT
                !.report = IF pdf_ok THEN Some(generate_pdf(gui.report_generator[1]))
                           ELSE @,
                !.msgbox = IF pdf_ok /\ txt_ok
                           THEN MessageBox("information", "Report Generati")
                           ELSE MessageBox("critical",
                               "Si è verificato un errore nella generazione dei report.")]
    /\ UNCHANGED <<specifiche, risultati, pc, file, tipo, fp, reader, loc, exc, ret,
                   calls, limit, folder, worker, conv>>


\* FileAnalyzer.__init__, lines 110-113, for a session on the named folder
InitWith(name, specSet, lim) ==
    /\ folder = name
    /\ limit = lim
    /\ specifiche \in Specifiche(specSet)
    /\ risultati = [r \in Roles |-> None]
    /\ pc = "idle"
    /\ file = NoFile
    /\ tipo = "impaginato"
    /\ fp = "none"
    /\ reader = NoReader
    /\ loc = NoLocals
    /\ exc = NoExc
    /\ ret = None
    /\ calls = 0
    /\ worker = NoWorker
    /\ conv = NoConv
    /\ gui = NoGui

InitGeneral == InitWith("general", GeneralSpecs, 1)
InitSession == InitWith("session", {ScenarioSpecs}, MaxCalls)
InitFonts == InitWith("fonts", {ScenarioSpecs}, 1)
InitDimensioni == InitWith("dimensioni", DimensioniSpecs, 1)
InitNumerazione == InitWith("numerazione", {ScenarioSpecs}, 1)
InitStampa == InitWith("stampa", StampaSpecs, 1)
InitColori == InitWith("colori", {ScenarioSpecs}, 1)
InitRisorse == InitWith("risorse", {ScenarioSpecs}, 1)
InitRapporto == InitWith("rapporto", {ScenarioSpecs}, 1)

Init == InitGeneral \/ InitSession

\* specs.get(key) on a mapping of a parsed Specifiche
DictGet(d, key) ==
    IF \E item \in d : item[1] = key
    THEN Some((CHOOSE item \in d : item[1] = key)[2])
    ELSE None

\* the declared values _analizza_pdf reads from a mapping of a parsed
\* Specifiche
DeclaredValues(d) ==
    [formato |-> DictGet(d, <<"f", "o", "r", "m", "a", "t", "o">>),
     pagine_totali |-> DictGet(d, <<"p", "a", "g", "i", "n", "e", " ", "t", "o", "t", "a", "l", "i">>),
     stampa |-> DictGet(d, <<"s", "t", "a", "m", "p", "a">>)]

\* A FileAnalyzer on the mappings of a parsed Specifiche, as line 45 of
\* worker.py means to build it: the worker has parsed its text and the
\* analyzer holds the impaginato and copertina mappings of the result
InitParsed ==
    /\ folder = "parsed"
    /\ limit = 1
    /\ \E testo \in ParsedTexts : \E parsed \in {_parse(testo)} :
          /\ worker = [NoWorker EXCEPT !.pc = "analyzer", !.testo = testo,
                                       !.copertina = Some("doc.pdf"),
                                       !.specifiche = Some(parsed)]
          /\ specifiche = [r \in Roles |-> DeclaredValues(parsed[r])]
    /\ risultati = [r \in Roles |-> None]
    /\ pc = "idle"
    /\ file = NoFile
    /\ tipo = "impaginato"
    /\ fp = "none"
    /\ reader = NoReader
    /\ loc = NoLocals
    /\ exc = NoExc
    /\ ret = None
    /\ calls = 0
    /\ conv = NoConv
    /\ gui = NoGui

\* AnalysisWorker.__init__: a worker built for a specification text and the
\* selected files, about to run; no FileAnalyzer exists yet
InitWorker ==
    /\ folder = "general"
    /\ limit = 0
    /\ specifiche = [r \in Roles |-> NoSpecs]
    /\ risultati = [r \in Roles |-> None]
    /\ pc = "idle"
    /\ file = NoFile
    /\ tipo = "impaginato"
    /\ fp = "none"
    /\ reader = NoReader
    /\ loc = NoLocals
    /\ exc = NoExc
    /\ ret = None
    /\ calls = 0
    /\ \E testo \in SpecTexts,
          impaginato \in {None, Some("doc.pdf")},
          copertina \in {None, Some("cover.pdf")} :
          worker = [NoWorker EXCEPT !.pc = "run", !.testo = testo,
                                    !.impaginato = impaginato,
                                    !.copertina = copertina]
    /\ conv = NoConv
    /\ gui = NoGui

NextWorker ==
    \/ WorkerParser
    \/ WorkerFileAnalyzer
    \/ WorkerExcept

\* a dimension or a box side about to be converted; no FileAnalyzer exists
InitConversione ==
    /\ folder = "general"
    /\ limit = 0
    /\ specifiche = [r \in Roles |-> NoSpecs]
    /\ risultati = [r \in Roles |-> None]
    /\ pc = "idle"
    /\ file = NoFile
    /\ tipo = "impaginato"
    /\ fp = "none"
    /\ reader = NoReader
    /\ loc = NoLocals
    /\ exc = NoExc
    /\ ret = None
    /\ calls = 0
    /\ worker = NoWorker
    /\ gui = NoGui
    /\ \/ \E w \in CmValues : conv = [NoConv EXCEPT !.pc = "start", !.value = w]
       \/ \E p \in PtValues :
              conv = [NoConv EXCEPT !.pc = "start", !.unit = "pt", !.value = p]

NextConversione ==
    \/ ConvertiCm
    \/ ConvertiBox

\* the window as built by __init__, lines 92-105, with a text typed into the
\* specification box; no FileAnalyzer exists yet
InitGui ==
    /\ folder = "general"
    /\ limit = 0
    /\ specifiche = [r \in Roles |-> NoSpecs]
    /\ risultati = [r \in Roles |-> None]
    /\ pc = "idle"
    /\ file = NoFile
    /\ tipo = "impaginato"
    /\ fp = "none"
    /\ reader = NoReader
    /\ loc = NoLocals
    /\ exc = NoExc
    /\ ret = None
    /\ calls = 0
    /\ worker = NoWorker
    /\ conv = NoConv
    /\ \E testo \in SpecTexts : gui = [NoGui EXCEPT !.txt_specs = testo]

\* The steps of the window and of its worker.  The slot of the finished
\* signal is connected (line 207) but no run of the worker sends that signal
\* (WorkerFileAnalyzer), so it is not among the steps.
NextGui ==
    \/ _select_impaginato
    \/ _select_copertina
    \/ _start_analysis
    \/ WorkerParser
    \/ WorkerFileAnalyzer
    \/ WorkerExcept
    \/ _on_analysis_error
    \/ \E pdf_ok \in BOOLEAN, txt_ok \in BOOLEAN : _export_report(pdf_ok, txt_ok)

\* outcomes of every kind of verdict: three flags take each of None, True and
\* False, the other four are all None or all True, esito is "OK" or "Errore"
VerdettoOutcomes ==
    {[AnalysisOutcome("PDF") EXCEPT
        !.esito_pagine = a, !.esito_numerazione = b, !.esito_stampa = c,
        !.esito_formato = d, !.esito_protezione = d,
        !.esito_font_incorporati = d, !.esito_pagine_singole = d,
        !.esito = e] :
        a \in {None, Some(TRUE), Some(FALSE)},
        b \in {None, Some(TRUE), Some(FALSE)},
        c \in {None, Some(TRUE), Some(FALSE)},
        d \in {None, Some(TRUE)},
        e \in {"OK", "Errore"}}

\* the risultati a worker sends for the files it was given
VerdettoResults(impaginato, copertina) ==
    (IF impaginato = None THEN << >> ELSE << <<"impaginato", impaginato[1]>> >>)
    \o (IF copertina = None THEN << >> ELSE << <<"copertina", copertina[1]>> >>)

\* _on_analysis_finished about to run: an analysis was started on the selected
\* files and the worker has sent finished(specifiche, risultati)
InitVerdetto ==
    /\ folder = "general"
    /\ limit = 0
    /\ specifiche = [r \in Roles |-> NoSpecs]
    /\ risultati = [r \in Roles |-> None]
    /\ pc = "idle"
    /\ file = NoFile
    /\ tipo = "impaginato"
    /\ fp = "none"
    /\ reader = NoReader
    /\ loc = NoLocals
    /\ exc = NoExc
    /\ ret = None
    /\ calls = 0
    /\ conv = NoConv
    /\ \E impaginato \in {None} \cup {Some(o) : o \in VerdettoOutcomes},
          copertina \in {None} \cup {Some(o) : o \in VerdettoOutcomes} :
          LET f_imp == IF impaginato = None THEN None ELSE Some(Path("doc.pdf"))
              f_cop == IF copertina = None THEN None ELSE Some(Path("cover.pdf"))
          IN  /\ worker = [NoWorker EXCEPT
                     !.pc = "done", !.testo = ScenarioText,
                     !.impaginato = f_imp, !.copertina = f_cop,
                     !.specifiche = Some(_parse(ScenarioText)),
                     !.emitted = <<[signal |-> "finished",
                                    args |-> <<_parse(ScenarioText),
                                               VerdettoResults(impaginato, copertina)>>]>>]
              /\ gui = [NoGui EXCEPT
                     !.txt_specs = ScenarioText,
                     !.file_impaginato = f_imp, !.file_copertina = f_cop,
                     !.btn_verify = FALSE, !.progress = "shown",
                     !.clicks = 1, !.started = 1, !.in_flight = {1}]

NextVerdetto ==
    \/ _on_analysis_finished
    \/ \E pdf_ok \in BOOLEAN, txt_ok \in BOOLEAN : _export_report(pdf_ok, txt_ok)

Next ==
    \/ AnalizzaFileNonTrovato
    \/ AnalizzaFileMimeError
    \/ AnalizzaFileNonSupportato
    \/ AnalizzaFileDispatch
    \/ PdfOpen
    \/ \E cached \in BOOLEAN, decrypted \in BOOLEAN : PdfReaderInit(cached, decrypted)
    \/ PdfWithExit
    \/ PdfFonts
    \/ PdfNumPagine
    \/ PdfDimensioni
    \/ PdfNumerazione
    \/ PdfStampa
    \/ PdfFormato
    \/ PdfPagine
    \/ PdfEsitoStampa
    \/ PdfReturn
    \/ AnalizzaWord
    \/ AnalizzaImmagine
    \/ AnalizzaFileExcept

Spec == Init /\ [][Next]_vars
SpecFonts == InitFonts /\ [][Next]_vars
SpecDimensioni == InitDimensioni /\ [][Next]_vars
SpecNumerazione == InitNumerazione /\ [][Next]_vars
SpecStampa == InitStampa /\ [][Next]_vars
SpecColori == InitColori /\ [][Next]_vars
SpecRisorse == InitRisorse /\ [][Next]_vars
SpecRapporto == InitRapporto /\ [][Next]_vars
SpecWorker == InitWorker /\ [][NextWorker]_vars
SpecConversione == InitConversione /\ [][NextConversione]_vars
SpecParsed == InitParsed /\ [][Next]_vars
SpecGui == InitGui /\ [][NextGui]_vars
SpecVerdetto == InitVerdetto /\ [][NextVerdetto]_vars

\* The window with its scheduling: the worker's thread, once started, keeps
\* being run (QThread.start, line 209), and the event loop of the window runs
\* the slot of a signal that was sent (queued connection, line 208).
WorkerStep == WorkerParser \/ WorkerFileAnalyzer \/ WorkerExcept
SpecGuiLive == SpecGui /\ WF_vars(WorkerStep) /\ WF_vars(_on_analysis_error)
SpecFailFast == (InitFonts \/ InitNumerazione) /\ [][Next]_vars

----------------------------------------------------------------------------
(* Properties *)

\* a call of analizza_file has returned and no other has started since
Returned == pc = "idle" /\ calls > 0

\* the call that has returned analysed a PDF the reader could be built on
ReturnedPdf == Returned /\ file.exists /\ ~file.mime_fails /\ file.mime = MIME_PDF /\ ~file.corrupt

IsErrorOutcome(o) ==
    /\ o.esito = "Errore"
    /\ o.messaggio # ""
    /\ EsitoFlags(o) = {None}

\* C1: analizza_file never lets an exception reach its caller.  Every call
\* that has ended has returned an outcome; a raised exception is on its way to
\* the handler of analizza_file and nowhere else; and a missing file, a MIME
\* detection failure, an unsupported MIME type and an exception raised inside
\* the selected analyzer are each returned as an outcome with esito = "Errore",
\* a non-empty messaggio and every esito_* flag None.
C1_ErrorsBecomeOutcomes ==
    /\ pc \in {"idle", "_analizza_pdf", "pdf_reader", "pdf_with_exit", "pdf_fonts",
               "pdf_num_pagine", "pdf_dimensioni", "pdf_numerazione", "pdf_stampa",
               "pdf_formato", "pdf_pagine", "pdf_esito_stampa", "pdf_return",
               "_analizza_word", "_analizza_immagine", "except"}
    /\ (exc # NoExc) => pc \in {"pdf_with_exit", "except", "idle"}
    /\ Returned =>
         /\ ret # None
         /\ (\/ ~file.exists
             \/ file.mime_fails
             \/ _ANALIZZATORI(file.mime) = ""
             \/ exc # NoExc) => IsErrorOutcome(ret[1])

\* C1 witness: an exception raised inside the selected analyzer has been
\* returned as an error-kind outcome carrying its message
C1_Witness ==
    /\ Returned
    /\ exc.type = "ValueError"
    /\ ret = Some(ErrorOutcome(MIME_PDF, exc.msg))

\* C2 (as claimed): the A4 scenario analysed as "impaginato" returns a normal
\* outcome with esito_formato, esito_pagine, esito_protezione,
\* esito_pagine_singole, esito_numerazione and esito_stampa true and
\* esito_font_incorporati false.  Stated for a reader that can read the
\* document's objects after the file is closed.
C2_ScenarioA4 ==
    (/\ ReturnedPdf
     /\ file.doc = ScenarioDoc
     /\ tipo = "impaginato"
     /\ specifiche["impaginato"] = ScenarioSpecs
     /\ reader.cached)
    => /\ ret[1].esito = "OK"
       /\ ret[1].esito_formato = Some(TRUE)
       /\ ret[1].esito_pagine = Some(TRUE)
       /\ ret[1].esito_protezione = Some(TRUE)
       /\ ret[1].esito_font_incorporati = Some(FALSE)
       /\ ret[1].esito_pagine_singole = Some(TRUE)
       /\ ret[1].esito_numerazione = Some(TRUE)
       /\ ret[1].esito_stampa = Some(TRUE)

ZeroSize == <<"0", "x", "0", " ", "c", "m">>

\* C3 (as claimed): an encrypted PDF analysed against declared pagine totali
\* "10" yields no error-kind outcome but one with esito_protezione,
\* esito_pagine, esito_formato and esito_font_incorporati false,
\* numero_pagine = 0 and dimensioni = "0x0 cm".
C3_EncryptedScenario ==
    (/\ ReturnedPdf
     /\ file.doc.encrypted
     /\ specifiche[tipo].pagine_totali = Some(<<"1", "0">>))
    => /\ ret[1].esito # "Errore"
       /\ ret[1].esito_protezione = Some(FALSE)
       /\ ret[1].esito_pagine = Some(FALSE)
       /\ ret[1].esito_formato = Some(FALSE)
       /\ ret[1].esito_font_incorporati = Some(FALSE)
       /\ ret[1].numero_pagine = Some(0)
       /\ ret[1].dimensioni = Some(ZeroSize)

\* C4 (as claimed): for an unencrypted PDF whose computed size is "W,DxH,D cm",
\* a declared formato "W,DxH,D" or "W.DxH.D" with no unit suffix makes
\* esito_formato true.
C4_FormatoSenzaUnita ==
    \A label \in {F_21_0x29_7, F_29_7x21_0} :
        (/\ ReturnedPdf
         /\ ~file.doc.encrypted
         /\ ret[1].esito = "OK"
         /\ ret[1].dimensioni = Some(label \o <<" ", "c", "m">>)
         /\ specifiche[tipo].formato \in {Some(label), Some(replace(label, ",", "."))})
        => ret[1].esito_formato = Some(TRUE)

\* the declared page count as the claim reads it: the digits' value, and 0
\* for a missing or unparsable declaration
DeclaredOrZero(p) ==
    IF p # None /\ p[1] # << >> /\ \A i \in DOMAIN p[1] : IsDigit(p[1][i])
    THEN DigitsValue(p[1])
    ELSE 0

\* C5 (as claimed): for an unencrypted PDF whose objects were all read, the
\* outcome is normal and esito_pagine is true exactly when the page count
\* equals the declared "pagine totali", a missing or unparsable declaration
\* counting as 0.
C5_PagineDichiarate ==
    (/\ ReturnedPdf
     /\ ~file.doc.encrypted
     /\ exc \in {NoExc, int(<<"a">>).exc})
    => /\ ret[1].esito = "OK"
       /\ ret[1].esito_pagine =
            Some(Len(file.doc.pages) = DeclaredOrZero(specifiche[tipo].pagine_totali))

DeclaredBiancoENero ==
    {Some(<<"b", "i", "a", "n", "c", "o", " ", "e", " ", "n", "e", "r", "o">>),
     Some(<<" ", "b", "i", "a", "n", "c", "o", " ", "e", " ", "n", "e", "r", "o", " ">>),
     Some(<<"B", "I", "A", "N", "C", "O", " ", "E", " ", "N", "E", "R", "O">>)}

DeclaredColori ==
    {Some(<<"c", "o", "l", "o", "r", "i">>), Some(<<"C", "o", "l", "o", "r", "i", " ">>)}

\* C6: whenever the analysis of a PDF returns a normal outcome, with b the
\* black-and-white flag the colour classifier produced (TRUE for a cover),
\* esito_stampa is b when the declared stampa, trimmed and lower-cased, is
\* "bianco e nero", is NOT b when it is "colori", and is true for any other
\* or missing declaration.
C6_EsitoStampa ==
    (ReturnedPdf /\ ret[1].esito = "OK") =>
        LET declared == specifiche[tipo].stampa
            b == loc.stampa_bw
        IN  /\ declared \in DeclaredBiancoENero => ret[1].esito_stampa = Some(b)
            /\ declared \in DeclaredColori => ret[1].esito_stampa = Some(~b)
            /\ declared \notin DeclaredBiancoENero \cup DeclaredColori
                 => ret[1].esito_stampa = Some(TRUE)

\* C6 witness: "Colori " was declared for a document classified as black and
\* white and the reported esito_stampa is false
C6_Witness ==
    /\ ReturnedPdf /\ ret[1].esito = "OK"
    /\ tipo = "impaginato"
    /\ specifiche[tipo].stampa = Some(<<"C", "o", "l", "o", "r", "i", " ">>)
    /\ loc.stampa_bw
    /\ ret[1].profilo_stampa = Some(<<"/DeviceGray">>)
    /\ ret[1].esito_stampa = Some(FALSE)

\* positions of _analizza_pdf after the font check, after the size
\* computation and after the numbering check
PastNumerazione == {"pdf_stampa", "pdf_formato", "pdf_pagine", "pdf_esito_stampa", "pdf_return"}
PastDimensioni == PastNumerazione \cup {"pdf_numerazione"}
PastFonts == PastDimensioni \cup {"pdf_dimensioni", "pdf_num_pagine"}

\* every font entry of the page has a descriptor with a font program; a page
\* without Resources or without a Font entry has no font entry
PageFontsEmbedded(page) ==
    \/ page.resources = None
    \/ page.resources[1].Font = None
    \/ \A k \in DOMAIN page.resources[1].Font[1] :
           LET descriptor == page.resources[1].Font[1][k].FontDescriptor IN
           /\ descriptor # None
           /\ \E key \in {"/FontFile", "/FontFile2", "/FontFile3"} : key \in descriptor[1]

\* C7: on a reader that can read the document's objects,
\* _check_all_fonts_incorporati returns true exactly when every font entry of
\* every page has a FontDescriptor holding /FontFile, /FontFile2 or /FontFile3
\* (so a document without fonts gives true); on a reader that cannot read them
\* it returns false.
C7_FontIncorporati ==
    (pc \in PastFonts /\ loc.protezione_ok) =>
        IF reader.cached
        THEN loc.fonts_ok = \A i \in DOMAIN file.doc.pages : PageFontsEmbedded(file.doc.pages[i])
        ELSE ~loc.fonts_ok

\* C7 witness: two pages, each with one font that carries a font program, and
\* the check has returned true
C7_Witness ==
    /\ pc \in PastFonts /\ loc.protezione_ok /\ reader.cached
    /\ Len(file.doc.pages) = 2
    /\ \A i \in 1..2 : /\ file.doc.pages[i].resources # None
                       /\ file.doc.pages[i].resources[1].Font # None
                       /\ Len(file.doc.pages[i].resources[1].Font[1]) = 1
    /\ loc.fonts_ok

FormattedPair(page) == <<format_cm(page.width), format_cm(page.height)>>

\* C8: whenever _dimensioni_impaginato returns for a document with at least
\* one page, it returns the label "{w}x{h} cm" of the first page if every
\* page's formatted (width, height) pair equals the first page's, and
\* "non uniforme" otherwise.
C8_DimensioniUniformi ==
    (pc \in PastDimensioni /\ tipo = "impaginato" /\ Len(file.doc.pages) >= 1) =>
        LET pp == file.doc.pages
            first == FormattedPair(pp[1])
        IN  loc.dimensioni =
                IF \A i \in DOMAIN pp : FormattedPair(pp[i]) = first
                THEN first[1] \o <<"x">> \o first[2] \o <<" ", "c", "m">>
                ELSE <<"n", "o", "n", " ", "u", "n", "i", "f", "o", "r", "m", "e">>

\* C8 witness: two pages whose sizes differ in points but not once formatted,
\* and the first page's label has been returned
C8_Witness ==
    /\ pc \in PastDimensioni /\ tipo = "impaginato"
    /\ Len(file.doc.pages) = 2
    /\ file.doc.pages[1].width # file.doc.pages[2].width
    /\ loc.dimensioni = F_21_0x29_7_cm

\* the last numeric token of each page text, -1 where the text has none
LastNumber(text) ==
    CASE text = <<"1">> -> 1
      [] text = <<"2">> -> 2
      [] text = <<"3">> -> 3
      [] text = <<"1", "0">> -> 10
      [] text = <<"1", " ", "2">> -> 2
      [] text = <<"3", " ", "1">> -> 1
      [] text = <<"a", " ", "2", ".">> -> 2
      [] OTHER -> -1

\* C9: for a document in which every page yields a numeric token,
\* _check_page_numbering_consecutive returns true exactly when the last numeric
\* tokens of consecutive pages differ by exactly +1.
C9_NumerazioneConsecutiva ==
    LET pp == file.doc.pages IN
    (/\ pc \in PastNumerazione /\ tipo = "impaginato" /\ loc.protezione_ok
     /\ \A i \in DOMAIN pp : ~pp[i].text_fails /\ LastNumber(pp[i].text) >= 0)
    => loc.numerazione_ok =
          \A i \in 1..(Len(pp) - 1) : LastNumber(pp[i + 1].text) = LastNumber(pp[i].text) + 1

\* C9 witness: the pages "1 2" and "3" have been found consecutive
C9_Witness ==
    /\ pc \in PastNumerazione /\ tipo = "impaginato"
    /\ Len(file.doc.pages) = 2
    /\ file.doc.pages[1].text = <<"1", " ", "2">>
    /\ file.doc.pages[2].text = <<"3">>
    /\ loc.numerazione_ok

\* the first page with a font entry that lacks a font program, 0 if none
FirstPageWithBareFont(doc) ==
    LET bad == {i \in DOMAIN doc.pages : ~PageFontsEmbedded(doc.pages[i])}
    IN  IF bad = {} THEN 0 ELSE CHOOSE i \in bad : \A j \in bad : i <= j

\* the first page whose text has no numeric token or cannot be extracted, 0 if
\* none
FirstPageWithoutNumber(doc) ==
    LET bad == {i \in DOMAIN doc.pages :
                   doc.pages[i].text_fails \/ LastNumber(doc.pages[i].text) < 0}
    IN  IF bad = {} THEN 0 ELSE CHOOSE i \in bad : \A j \in bad : i <= j

\* C10: both checks stop at the first failing page.  When page k is the first
\* with a font that has no embedded program, the font check answers false
\* having visited exactly k pages; when page k is the first without a numeric
\* token, the numbering check answers false having visited exactly k pages and
\* without raising, whatever the later pages hold (text that cannot be
\* extracted included).
C10_FailFast ==
    [][LET kf == FirstPageWithBareFont(file.doc)
           kn == FirstPageWithoutNumber(file.doc)
       IN  /\ (pc = "pdf_fonts" /\ reader.cached /\ ~file.doc.encrypted /\ kf > 0)
                => /\ pc' = "pdf_num_pagine"
                   /\ ~loc'.fonts_ok
                   /\ loc'.fonts_examined = kf
           /\ (/\ pc = "pdf_numerazione" /\ reader.cached /\ loc.protezione_ok
               /\ kn > 0 /\ ~file.doc.pages[kn].text_fails)
                => /\ pc' = "pdf_stampa"
                   /\ ~loc'.numerazione_ok
                   /\ loc'.numerazione_examined = kn
      ]_vars

\* C10 witness: the numbering check has answered false after the first of two
\* pages, whose text has no number, and the second page's text cannot be
\* extracted
C10_Witness ==
    /\ pc = "pdf_stampa"
    /\ Len(file.doc.pages) = 2
    /\ file.doc.pages[1].text = <<"a">>
    /\ file.doc.pages[2].text_fails
    /\ ~loc.numerazione_ok
    /\ loc.numerazione_examined = 1

PastStampa == {"pdf_formato", "pdf_pagine", "pdf_esito_stampa", "pdf_return"}

\* the image XObjects of the document, page by page
ImagesOf(doc) ==
    {x \in UNION {IF p.resources = None \/ p.resources[1].XObject = None
                  THEN {}
                  ELSE {p.resources[1].XObject[1][k] :
                          k \in DOMAIN p.resources[1].XObject[1]} :
                  p \in {doc.pages[i] : i \in DOMAIN doc.pages}} :
        x.Subtype = "/Image"}

\* the base colour-space identifier of an image that has a colour space
BaseIdentifier(x) == x.ColorSpace.v[1]

\* code-point order of the identifiers that occur in the documents
StrBefore(a, b) ==
    LET rank(n) == CASE n = "/CalGray" -> 1
                     [] n = "/DeviceGray" -> 2
                     [] n = "/DeviceRGB" -> 3
                     [] n = "/ICCBased" -> 4
                     [] n = "/Indexed" -> 5
    IN  rank(a) < rank(b)

EffectiveResources(page) ==
    IF /\ page.resources # None
       /\ \E key \in DOMAIN page.resources[1] : page.resources[1][key] # None
    THEN page.resources
    ELSE page.inherited

EffectiveEntries(page, key) ==
    IF EffectiveResources(page) = None \/ EffectiveResources(page)[1][key] = None
    THEN << >>
    ELSE EffectiveResources(page)[1][key][1]

\* C13: on a reader that can read the document's objects, the font check is
\* true exactly when every font of every page's effective Resources carries a
\* font program, and the colour classification is black and white exactly
\* when every image of every page's effective Resources is /DeviceGray or
\* /CalGray, where the effective Resources are the page's own when present
\* and non-empty and the nearest ancestor's otherwise.
C13_RisorseEreditate ==
    LET pp == file.doc.pages
        fonts(i) == EffectiveEntries(pp[i], "Font")
        images(i) == {x \in {EffectiveEntries(pp[i], "XObject")[k] :
                               k \in DOMAIN EffectiveEntries(pp[i], "XObject")} :
                        x.Subtype = "/Image"}
    IN  /\ (pc \in PastFonts /\ file.mime = MIME_PDF /\ reader.cached)
           => loc.fonts_ok =
                \A i \in DOMAIN pp : \A k \in DOMAIN fonts(i) :
                    /\ fonts(i)[k].FontDescriptor # None
                    /\ fonts(i)[k].FontDescriptor[1] \cap FontFileKeys # {}
        /\ (pc \in PastStampa /\ file.mime = MIME_PDF /\ tipo = "impaginato")
           => loc.stampa_bw =
                \A i \in DOMAIN pp : \A x \in images(i) :
                    x.ColorSpace.v[1] \in GrayColorSpaces

\* C14: an analysis for the role copertina never reaches the numbering check
\* or the colour classification, and whenever it returns a normal outcome for
\* a PDF, dimensioni is the size label of the first page alone,
\* esito_pagine_singole and esito_numerazione are true and the profile text
\* is empty.
C14_Copertina ==
    /\ pc \in {"pdf_numerazione", "pdf_stampa"} => tipo = "impaginato"
    /\ (ReturnedPdf /\ tipo = "copertina" /\ ret[1].esito = "OK")
       => /\ ret[1].dimensioni =
               Some(format_cm(file.doc.pages[1].width) \o <<"x">>
                    \o format_cm(file.doc.pages[1].height) \o <<" ", "c", "m">>)
          /\ ret[1].esito_pagine_singole = Some(TRUE)
          /\ ret[1].esito_numerazione = Some(TRUE)
          /\ ret[1].profilo_stampa = Some(<< >>)

\* C14 witness: a two-page cover whose second page is a landscape spread
\* without page number has returned with the first page's size
C14_Witness ==
    /\ ReturnedPdf /\ tipo = "copertina" /\ ret[1].esito = "OK"
    /\ file.doc.pages = <<ScenarioPage, SpreadPage>>
    /\ ret[1].dimensioni = Some(F_21_0x29_7_cm)
    /\ ret[1].esito_pagine_singole = Some(TRUE)
    /\ ret[1].esito_numerazione = Some(TRUE)

\* the call that has returned went into _analizza_pdf
ReturnedFromPdf ==
    Returned /\ file.exists /\ ~file.mime_fails /\ file.mime = MIME_PDF

\* C15: no call returns with a file object open, and when a call that opened
\* the document for a PDF analysis has returned, with a normal outcome or with
\* an error outcome, the file object is closed; it is already closed at every
\* step of _analizza_pdf after the with block.
C15_HandleClosed ==
    /\ Returned => fp # "open"
    /\ ReturnedFromPdf => fp = "closed"
    /\ pc \in PastFonts \cup {"pdf_fonts"} => fp = "closed"

\* C15 witness: the reader's constructor has raised on a damaged PDF, the call
\* has returned an error outcome and the file object is closed
C15_Witness ==
    /\ ReturnedFromPdf /\ file.corrupt
    /\ ret[1].esito = "Errore"
    /\ fp = "closed"

\* _analizza_pdf as a function of the file, the role, the declared values of
\* the role and the way the reader reads the file: the first step that raises
\* decides the error outcome, otherwise the outcome is built from the steps'
\* results
PdfOutcome(f, t, specs, cached, decrypted) ==
    LET rd == [doc |-> f.doc, stream |-> "closed", cached |-> cached,
               decrypted |-> IF f.doc.encrypted THEN decrypted ELSE TRUE]
        failed(e) == ErrorOutcome(f.mime, e.msg)
        protezione_ok == ~is_encrypted(rd)
        fonts_ok == protezione_ok /\ _check_all_fonts_incorporati(rd).val
        dim == IF t = "impaginato" THEN _dimensioni_impaginato(rd)
               ELSE _dimensioni_prima_pagina(rd)
        num == _check_page_numbering_consecutive(rd)
        stampa == _check_stampa_pdf(rd)
        declared == DeclaredPages(specs)
    IN  IF f.corrupt THEN ErrorOutcome(f.mime, "EOF marker not found")
        ELSE IF protezione_ok /\ Raised(pages(rd)) THEN failed(pages(rd).exc)
        ELSE IF Raised(dim) THEN failed(dim.exc)
        ELSE IF t = "impaginato" /\ protezione_ok /\ Raised(num) THEN failed(num.exc)
        ELSE IF t = "impaginato" /\ Raised(stampa) THEN failed(stampa.exc)
        ELSE IF protezione_ok /\ Raised(declared) THEN failed(declared.exc)
        ELSE LET num_pagine == IF protezione_ok THEN Len(pages(rd).val) ELSE 0
                 dimensioni == IF t = "impaginato" THEN dim.val[1] ELSE dim.val
                 stampa_bw == IF t = "impaginato" THEN stampa.val[1] ELSE TRUE
             IN  [AnalysisOutcome("PDF") EXCEPT
                    !.numero_pagine = Some(num_pagine),
                    !.dimensioni = Some(dimensioni),
                    !.profilo_stampa =
                        Some(IF t = "impaginato" THEN stampa.val[2] ELSE << >>),
                    !.esito_pagine = Some(protezione_ok /\ num_pagine = declared.val),
                    !.esito_formato =
                        Some(protezione_ok
                             /\ _verifica_formato(dimensioni, SpecGet(specs, "formato"))),
                    !.esito_protezione = Some(protezione_ok),
                    !.esito_font_incorporati = Some(fonts_ok),
                    !.esito_pagine_singole =
                        Some(IF t = "impaginato" THEN dim.val[2] ELSE TRUE),
                    !.esito_numerazione =
                        Some(IF t = "impaginato" THEN protezione_ok /\ num.val ELSE TRUE),
                    !.esito_stampa =
                        Some(EsitoStampa(SpecGet(specs, "stampa"), stampa_bw))]

\* _analizza_word and _analizza_immagine as functions of the file and the
\* declared values of the role
WordOutcome(f, specs) ==
    IF f.corrupt THEN ErrorOutcome(f.mime, "Package not found")
    ELSE IF Raised(DeclaredPages(specs)) THEN ErrorOutcome(f.mime, DeclaredPages(specs).exc.msg)
    ELSE [AnalysisOutcome("WORD") EXCEPT
            !.numero_pagine = Some(f.word_pages),
            !.esito_pagine = Some(f.word_pages = DeclaredPages(specs).val)]

ImmagineOutcome(f, specs) ==
    IF f.corrupt THEN ErrorOutcome(f.mime, "cannot identify image file")
    ELSE LET dimensioni == replace(format_1f(PxCmTenths(f.img.width)) \o <<"x">>
                                   \o format_1f(PxCmTenths(f.img.height))
                                   \o <<" ", "c", "m">>, ".", ",")
         IN  [AnalysisOutcome(IF f.img.format = None THEN "IMG" ELSE f.img.format[1])
                EXCEPT
                !.dimensioni = Some(dimensioni),
                !.spazio_colore = Some(SpazioColore(f.img.mode)),
                !.esito_formato =
                    Some(_verifica_formato(dimensioni, SpecGet(specs, "formato")))]

\* analizza_file as a function of its arguments
AnalizzaFileOutcome(f, t, specs, cached, decrypted) ==
    IF ~f.exists THEN ErrorOutcome("sconosciuto", "File non trovato: " \o f.path)
    ELSE IF f.mime_fails THEN ErrorOutcome("sconosciuto", "cannot open file")
    ELSE CASE _ANALIZZATORI(f.mime) = "" ->
                ErrorOutcome(f.mime, "Formato non supportato: " \o f.mime)
           [] _ANALIZZATORI(f.mime) = "_analizza_pdf" ->
                PdfOutcome(f, t, specs, cached, decrypted)
           [] _ANALIZZATORI(f.mime) = "_analizza_word" -> WordOutcome(f, specs)
           [] _ANALIZZATORI(f.mime) = "_analizza_immagine" -> ImmagineOutcome(f, specs)

\* C16: the outcome analizza_file returns is a function of the file, the
\* role, the declared values of that role and the way the reader reads the
\* file; it is the same for the first call on a FileAnalyzer and for a call
\* that follows other calls, whatever those stored in the results.
C16_Independence ==
    Returned
    => ret[1] = AnalizzaFileOutcome(file, tipo, specifiche[tipo],
                                    reader.cached, reader.decrypted)

\* C16 witness: the second call on a FileAnalyzer analyses the interior after
\* a first call that stored an error outcome for the cover, and returns a
\* normal outcome
C16_Witness ==
    /\ ReturnedFromPdf /\ calls = 2
    /\ tipo = "impaginato" /\ file.path = "two.pdf"
    /\ risultati["copertina"] # None
    /\ risultati["copertina"][1].esito = "Errore"
    /\ ret[1].esito = "OK"
    /\ ret[1].numero_pagine = Some(2)

\* what a line of the specification texts says: the mapping its key belongs
\* to, the key trimmed and lower-cased, and the value; None for a line that
\* is no "key: value" line
LineEntry(line) ==
    CASE line = <<"F", "o", "r", "m", "a", "t", "o", ":", " ", "A", "4">> ->
           Some([mapping |-> "impaginato", key |-> <<"f", "o", "r", "m", "a", "t", "o">>, value |-> <<"A", "4">>])
      [] line = <<" ", "S", "T", "A", "M", "P", "A", " ", ":", " ", " ", "C", "o", "l", "o", "r", "i", " ">> ->
           Some([mapping |-> "impaginato", key |-> <<"s", "t", "a", "m", "p", "a">>, value |-> <<"C", "o", "l", "o", "r", "i">>])
      [] line = <<"f", "o", "r", "m", "a", "t", "o", ":", " ", "A", "5">> ->
           Some([mapping |-> "impaginato", key |-> <<"f", "o", "r", "m", "a", "t", "o">>, value |-> <<"A", "5">>])
      [] line = <<"R", "i", "l", "e", "g", "a", "t", "u", "r", "a", ":", " ", "b">> ->
           Some([mapping |-> "copertina", key |-> <<"r", "i", "l", "e", "g", "a", "t", "u", "r", "a">>, value |-> <<"b">>])
      [] line = <<"N", "o", "t", "e", ":", " ", "a", ":", "b">> ->
           Some([mapping |-> "extra", key |-> <<"n", "o", "t", "e">>, value |-> <<"a", ":", "b">>])
      [] line = <<":", " ", "x">> ->
           Some([mapping |-> "extra", key |-> << >>, value |-> <<"x">>])
      [] OTHER -> None

\* the lines of the worker's text, split at the line feeds
InputLines ==
    LET RECURSIVE Cut(_, _)
        Cut(text, line) ==
            IF text = << >> THEN <<line>>
            ELSE IF Head(text) = "\n" THEN <<line>> \o Cut(Tail(text), << >>)
            ELSE Cut(Tail(text), Append(line, Head(text)))
    IN  Cut(worker.testo, << >>)

Parsed == worker.specifiche[1]

Keys(d) == {item[1] : item \in d}

\* the entry is stored in its mapping and its key is in no other mapping
StoredInExactlyOne(e) ==
    /\ <<e.key, e.value>> \in Parsed[e.mapping]
    /\ \A m \in {"impaginato", "copertina", "extra"} \ {e.mapping} :
           e.key \notin Keys(Parsed[m])

C18_WorkerSuccess ==
    (worker.pc = "done" /\ strip(worker.testo) # << >>)
    => /\ Len(worker.emitted) = 1
       /\ worker.emitted[1].signal = "finished"

\* f"{larg:.1f}" of line 300 is decided by the exact quotient: for every box
\* side the float computation gives the string of format_cm
FormatCmExact ==
    (conv.pc = "done" /\ conv.unit = "pt") => conv.larg_s = format_cm(conv.value)

\* C19: for every dimension w > 0 in centimetres, the box side w * 28.35
\* points divided by 28.35 and formatted with one decimal digit and a comma
\* gives the same string as w formatted directly.
C19_RoundTrip ==
    (conv.pc = "done" /\ conv.unit = "cm") => conv.larg_s = conv.diretto

\* the dimension is halfway between two tenths of a centimetre
Halfway(w) == w % 10 = 5

\* C19 as amended: the same for every dimension w > 0 of at most two decimal
\* digits that is not halfway between two tenths of a centimetre.
C19_RoundTripOffHalfway ==
    (conv.pc = "done" /\ conv.unit = "cm" /\ ~Halfway(conv.value))
        => conv.larg_s = conv.diretto

\* C19 witness: 29.74 cm has gone through the conversion and reads "29,7"
\* both ways
C19_Witness ==
    /\ conv.pc = "done" /\ conv.unit = "cm" /\ conv.value = 2974
    /\ conv.larg_s = <<"2", "9", ",", "7">>
    /\ conv.diretto = <<"2", "9", ",", "7">>

\* the exact quotient of the sides of the page is at most 1.2, 0 when the
\* height is 0
RatioAtMost(page) == page.height = 0 \/ 5 * page.width <= 6 * page.height

\* C20: whenever the analysis of an unencrypted interior PDF returns a normal
\* outcome, esito_pagine_singole is true exactly when the quotient
\* width / height of every page is at most 1.2 (0 when the height is 0).
C20_PagineSingole ==
    (ReturnedPdf /\ tipo = "impaginato" /\ ~file.doc.encrypted /\ ret[1].esito = "OK")
       => ret[1].esito_pagine_singole =
              Some(\A i \in DOMAIN file.doc.pages : RatioAtMost(file.doc.pages[i]))

----------------------------------------------------------------------------
(* Encrypted documents, the result store, failures inside the steps *)

\* the functions of FileAnalyzer that _analizza_pdf runs on the reader: the
\* font, geometry, numbering and colour checks
Checkers ==
    {"_check_all_fonts_incorporati", "_dimensioni_impaginato", "_dimensioni_prima_pagina",
     "_check_page_numbering_consecutive", "_check_stampa_pdf"}

\* C21 (as claimed): when the reader reports the document as encrypted,
\* _analizza_pdf runs none of the font, geometry, numbering and colour checks
\* and reads no page of the document, at any step up to the outcome.
C21_EncryptedSkipsContent ==
    (reader # NoReader /\ is_encrypted(reader))
    => \A i \in DOMAIN loc.reads :
          /\ loc.reads[i].by \notin Checkers
          /\ loc.reads[i].what # "pages"

\* get_risultati(), lines 166-168
get_risultati == {<<t, risultati[t][1]>> : t \in {r \in Roles : risultati[r] # None}}

\* the entry of the role in a mapping
Entry(d, t) == {kv[2] : kv \in {e \in d : e[1] = t}}

\* C22: a new FileAnalyzer has no results; a step of a call that does not
\* return changes no entry; the step on which a call returns makes the entry
\* of the call's role the returned outcome, an error outcome included, and
\* leaves the entry of the other role as it was.  So get_risultati() holds, for
\* each role, the outcome of the latest call for it and nothing for a role
\* never analysed.
C22_ResultStore ==
    /\ get_risultati = {}
    /\ [][/\ pc' # "idle" => get_risultati' = get_risultati
          /\ pc' = "idle" =>
                /\ ret' # None
                /\ Entry(get_risultati', tipo') = {ret'[1]}
                /\ \A t \in Roles \ {tipo'} :
                      Entry(get_risultati', t) = Entry(get_risultati, t)]_vars

\* C22 witness: the second call of a session has returned an error outcome for
\* the cover, and the results hold it next to the normal outcome the first
\* call stored for the interior
C22_Witness ==
    /\ Returned /\ calls = 2 /\ tipo = "copertina"
    /\ IsErrorOutcome(ret[1])
    /\ <<"copertina", ret[1]>> \in get_risultati
    /\ \E o \in Entry(get_risultati, "impaginato") : o.esito = "OK"

\* the first page whose text extraction the numbering loop reaches and that
\* fails to give its text, 0 when the loop reaches none
FirstPageTextFails(doc) ==
    LET failing == {i \in DOMAIN doc.pages :
                      /\ doc.pages[i].text_fails
                      /\ \A j \in 1..(i - 1) :
                            /\ ~doc.pages[j].text_fails
                            /\ findall_numbers(doc.pages[j].text) # << >>}
    IN  IF failing = {} THEN 0 ELSE CHOOSE i \in failing : TRUE

\* C23 (as claimed): when the text extraction of a page of an unencrypted
\* interior PDF raises, with every object of the document readable, the call
\* returns a normal outcome with esito_numerazione false.
C23_TextFailureIsMissingToken ==
    (/\ ReturnedPdf /\ tipo = "impaginato"
     /\ ~file.doc.encrypted /\ reader.cached
     /\ FirstPageTextFails(file.doc) > 0)
    => /\ ret[1].esito # "Errore"
       /\ ret[1].esito_numerazione = Some(FALSE)

\* C24 (as claimed): an unencrypted interior PDF with no page, analysed with no
\* declared "pagine totali" and with every object of the document readable,
\* gives a normal outcome with numero_pagine = 0 and esito_pagine true.
C24_ZeroPages ==
    (/\ ReturnedPdf /\ tipo = "impaginato"
     /\ ~file.doc.encrypted /\ reader.cached
     /\ file.doc.pages = << >>
     /\ specifiche[tipo].pagine_totali = None)
    => /\ ret[1].esito # "Errore"
       /\ ret[1].numero_pagine = Some(0)
       /\ ret[1].esito_pagine = Some(TRUE)

\* C26 (as claimed): every access of a PDF analysis to the document, to its
\* encryption flag and to its pages and their objects, happens while the file
\* object opened at the start of the call is open.
C26_NoUseAfterClose ==
    \A i \in DOMAIN loc.reads : loc.reads[i].fp = "open"

\* C29 (as claimed): once _check_stampa_pdf has run on a document that has an
\* image without /ColorSpace entry, the profile holds no identifier for that
\* image and the classification is that of the other images alone: black and
\* white with the text "Nessuna immagine" when there is no other image, else
\* black and white exactly when the others are all /DeviceGray or /CalGray.
C29_ImageWithoutColorSpace ==
    (/\ pc \in PastStampa /\ tipo = "impaginato" /\ file.mime = MIME_PDF
     /\ \E x \in ImagesOf(file.doc) : x.ColorSpace.kind = "none")
    => LET others == {x \in ImagesOf(file.doc) : x.ColorSpace.kind # "none"}
           ids == {BaseIdentifier(x) : x \in others}
           profilo == loc.profilo_stampa
       IN  IF others = {}
           THEN loc.stampa_bw /\ profilo = <<"Nessuna immagine">>
           ELSE /\ loc.stampa_bw = (ids \subseteq {"/DeviceGray", "/CalGray"})
                /\ {profilo[i] : i \in DOMAIN profilo} = ids

----------------------------------------------------------------------------
(* The verdict, the window and its worker *)

\* the risultati the worker has sent with its finished signal
SentResults == worker.emitted[1].args[2]

\* esito is not "Errore" and no esito_* flag is False
NoFlagFalse(o) == o.esito # "Errore" /\ Some(FALSE) \notin EsitoFlags(o)

\* C25: for every outcome, conforme is true exactly when esito is not "Errore"
\* and none of the seven esito_* flags is False, whatever flags are None; a
\* row of the result table says "Conforme" only if that holds of the row's
\* file, and the report says "CONFORME" only if it holds of every analysed
\* file.
C25_Verdetto ==
    (worker.emitted # << >> /\ worker.emitted[1].signal = "finished")
    => /\ \A i \in DOMAIN SentResults :
             conforme(SentResults[i][2]) <=> NoFlagFalse(SentResults[i][2])
       /\ \A r \in DOMAIN gui.table :
             gui.table[r].stato = "Conforme" => NoFlagFalse(SentResults[r][2])
       /\ (gui.report # None /\ gui.report[1].esito_finale = "CONFORME")
          => \A i \in DOMAIN SentResults : NoFlagFalse(SentResults[i][2])

\* C25 witness: two files were analysed, one of the outcomes has flags that
\* are None, both rows of the table say "Conforme" and the exported report
\* says "CONFORME"
C25_Witness ==
    /\ Len(gui.table) = 2
    /\ \A r \in DOMAIN gui.table : gui.table[r].stato = "Conforme"
    /\ None \in EsitoFlags(SentResults[1][2])
    /\ gui.report # None
    /\ gui.report[1].esito_finale = "CONFORME"
    /\ gui.report[1].sections = <<"impaginato", "copertina">>

\* the worker thread is between its start and the sending of its signal
WorkerRunning == worker.pc \in {"run", "analyzer", "except"}

\* C27: while a started worker's signal has not been handled the verify button
\* is disabled, and at most one worker is in that condition, the running one
\* if one runs; with a blank specification text no worker is ever started and
\* the button stays enabled.
C27_OneInFlight ==
    /\ gui.in_flight # {} => ~gui.btn_verify
    /\ Cardinality(gui.in_flight) <= 1
    /\ WorkerRunning => gui.in_flight = {gui.started}
    /\ strip(gui.txt_specs) = << >>
       => gui.started = 0 /\ worker = NoWorker /\ gui.btn_verify

\* C27 witness: a second analysis runs, started by a second click after the
\* first worker's signal was handled, and the button is disabled
C27_Witness ==
    /\ gui.clicks = 2 /\ gui.started = 2
    /\ worker.pc = "analyzer"
    /\ gui.in_flight = {2}
    /\ ~gui.btn_verify

\* the analysis last started is over for the window: the slot of its worker's
\* signal has run
Handled == gui.started > 0 /\ gui.in_flight = {}

\* C28: a run of the worker sends at most one signal, finished or error, and
\* has sent one when it ends; once the signal is handled the progress dialog
\* is closed and the verify button enabled; and every analysis started is
\* eventually handled.
C28_EveryAnalysisCompletes ==
    /\ [](/\ Len(worker.emitted) <= 1
          /\ \A i \in DOMAIN worker.emitted :
                worker.emitted[i].signal \in {"finished", "error"}
          /\ worker.pc = "done" => Len(worker.emitted) = 1
          /\ Handled => gui.progress = "closed" /\ gui.btn_verify)
    /\ (gui.in_flight # {}) ~> (Handled /\ gui.progress = "closed" /\ gui.btn_verify)

\* C28 witness: the worker of an analysis has ended after sending its one
\* signal, error, and its slot has closed the dialog, enabled the button and
\* shown the message
C28_Witness ==
    /\ gui.started = 1 /\ Handled
    /\ worker.pc = "done"
    /\ Len(worker.emitted) = 1 /\ worker.emitted[1].signal = "error"
    /\ gui.progress = "closed" /\ gui.btn_verify
    /\ gui.msgbox = MessageBox("critical", worker.emitted[1].args[1])

\* C30: the copertina mapping of a parsed specification text has no key
\* "pagine totali", so the analyzer built on the parsed mappings has no
\* declared page count for the cover; and whenever the analysis of an
\* unencrypted cover PDF with at least one page returns, the outcome is not
\* conforme: esito_pagine is false in a normal outcome, and the outcome is an
\* error outcome otherwise.
C30_CoverNeverConforme ==
    /\ worker.specifiche # None
       => /\ \A item \in worker.specifiche[1].copertina :
                item[1] # <<"p", "a", "g", "i", "n", "e", " ", "t", "o", "t", "a", "l", "i">>
          /\ specifiche.copertina.pagine_totali = None
    /\ (/\ ReturnedPdf /\ tipo = "copertina"
        /\ ~file.doc.encrypted /\ Len(file.doc.pages) >= 1)
       => /\ ~conforme(ret[1])
          /\ ret[1].esito = "OK" => ret[1].esito_pagine = Some(FALSE)
          /\ ret[1].esito # "OK" => IsErrorOutcome(ret[1])

\* C30 witness: the text declares "Pagine totali: 1", the parser has stored it
\* for the interior, and a one-page unencrypted cover has returned a normal
\* outcome with numero_pagine 1 and esito_pagine false
C30_Witness ==
    /\ ReturnedPdf /\ tipo = "copertina"
    /\ ~file.doc.encrypted /\ Len(file.doc.pages) = 1
    /\ specifiche.impaginato.pagine_totali = Some(<<"1">>)
    /\ ret[1].esito = "OK"
    /\ ret[1].numero_pagine = Some(1)
    /\ ret[1].esito_pagine = Some(FALSE)
    /\ ~conforme(ret[1])

=========================================================================
